---- MODULE Spec2Model ----
(***************************************************************************)
(* A model of the persistence core of CodeMapVisualizer                    *)
(* (backend/app/services/scanner.py): project-root detection, storage path *)
(* resolution, the atomic JSON writer, and the four operations scanFile,   *)
(* saveComments, addComment and scanFolder, run by concurrent callers on   *)
(* one shared file system.                                                 *)
(***************************************************************************)
EXTENDS Integers, Sequences, FiniteSets, TLC

(***************************************************************************)
(* JSON values.  Every value is a record of one shape:                     *)
(*   t : "null" | "num" | "str" | "list" | "obj"                         *)
(*   s : the text of a string,  n : the number,                            *)
(*   v : the elements of a list, or the members [key, val] of an object,   *)
(*       in insertion order (python dicts and json keep that order).       *)
(***************************************************************************)
JNull == [t |-> "null", s |-> "", n |-> 0, v |-> <<>>]
JNum(k) == [t |-> "num", s |-> "", n |-> k, v |-> <<>>]
JStr(x) == [t |-> "str", s |-> x, n |-> 0, v |-> <<>>]
JList(elems) == [t |-> "list", s |-> "", n |-> 0, v |-> elems]
JObj(members) == [t |-> "obj", s |-> "", n |-> 0, v |-> members]
Member(key, val) == [key |-> key, val |-> val]
EmptyDict == JObj(<<>>)

\* python: key in d   (d a dict)
HasKey(d, key) == \E i \in 1..Len(d.v) : d.v[i].key = key

\* python: d[key]   (d a dict that has the key)
GetKey(d, key) == d.v[CHOOSE i \in 1..Len(d.v) : d.v[i].key = key].val

\* python: d[key] = val   (an existing key keeps its position, a new one goes last)
SetKey(d, key, val) ==
  IF HasKey(d, key)
    THEN JObj([i \in 1..Len(d.v) |->
                 IF d.v[i].key = key THEN Member(key, val) ELSE d.v[i]])
    ELSE JObj(Append(d.v, Member(key, val)))

(***************************************************************************)
(* The text of a file is a sequence of tokens, the chunks the encoder      *)
(* emits.  A token has one shape too: k is the kind, s and n its payload.  *)
(* A key token stands for the quoted key and its colon.                    *)
(***************************************************************************)
Tok(k, s, n) == [k |-> k, s |-> s, n |-> n]

RECURSIVE dumps(_)
RECURSIVE dumpsAll(_)
RECURSIVE dumpsMembers(_)
\* json.dump(data, f, indent=2): the token text of a value
dumps(val) ==
  CASE val.t = "null" -> <<Tok("null", "", 0)>>
    [] val.t = "num"  -> <<Tok("num", "", val.n)>>
    [] val.t = "str"  -> <<Tok("str", val.s, 0)>>
    [] val.t = "list" -> <<Tok("[", "", 0)>> \o dumpsAll(val.v) \o <<Tok("]", "", 0)>>
    [] val.t = "obj"  -> <<Tok("{", "", 0)>> \o dumpsMembers(val.v) \o <<Tok("}", "", 0)>>
dumpsAll(elems) ==
  IF elems = <<>> THEN <<>> ELSE dumps(Head(elems)) \o dumpsAll(Tail(elems))
dumpsMembers(members) ==
  IF members = <<>> THEN <<>>
  ELSE <<Tok("key", Head(members).key, 0)>> \o dumps(Head(members).val)
         \o dumpsMembers(Tail(members))

\* The result of a parse: ok, the value, and the index after it.
ParseFail == [ok |-> FALSE, val |-> JNull, next |-> 0]
Parsed(val, next) == [ok |-> TRUE, val |-> val, next |-> next]

RECURSIVE parseValue(_, _)
RECURSIVE parseElems(_, _, _)
RECURSIVE parseMembers(_, _, _)
\* json.load: one value starting at token i
parseValue(toks, i) ==
  IF i > Len(toks) THEN ParseFail
  ELSE CASE toks[i].k = "null" -> Parsed(JNull, i + 1)
         [] toks[i].k = "num"  -> Parsed(JNum(toks[i].n), i + 1)
         [] toks[i].k = "str"  -> Parsed(JStr(toks[i].s), i + 1)
         [] toks[i].k = "["    -> parseElems(toks, i + 1, <<>>)
         [] toks[i].k = "{"    -> parseMembers(toks, i + 1, EmptyDict)
         [] OTHER              -> ParseFail
parseElems(toks, i, acc) ==
  IF i > Len(toks) THEN ParseFail
  ELSE IF toks[i].k = "]" THEN Parsed(JList(acc), i + 1)
  ELSE LET r == parseValue(toks, i)
       IN IF r.ok THEN parseElems(toks, r.next, Append(acc, r.val)) ELSE ParseFail
\* a repeated key keeps its first position and takes the last value (python dict)
parseMembers(toks, i, acc) ==
  IF i > Len(toks) THEN ParseFail
  ELSE IF toks[i].k = "}" THEN Parsed(acc, i + 1)
  ELSE IF toks[i].k # "key" THEN ParseFail
  ELSE LET r == parseValue(toks, i + 1)
       IN IF r.ok THEN parseMembers(toks, r.next, SetKey(acc, toks[i].s, r.val))
          ELSE ParseFail

\* json.load(inFile): the whole text must be exactly one value
loads(toks) ==
  LET r == parseValue(toks, 1)
  IN IF r.ok /\ r.next = Len(toks) + 1 THEN r ELSE ParseFail

(***************************************************************************)
(* Paths.  A path is absolute: the sequence of its components below "/",   *)
(* so <<>> is "/".  A component is a sequence of atoms, pieces of text in  *)
(* which "." and ":" always stand alone, so that the character tests and   *)
(* replacements of the code can be made atom by atom.                      *)
(***************************************************************************)
Sep == "/"
Dot == <<".">>
DotDot == <<".", ".">>
Assets == <<"assets">>
DotVisualizer == <<".", "visualizer">>
DotGit == <<".", "git">>

RECURSIVE normparts(_, _)
normparts(comps, acc) ==
  IF comps = <<>> THEN acc
  ELSE LET c == Head(comps)
       IN IF c = <<>> \/ c = Dot THEN normparts(Tail(comps), acc)
          ELSE IF c = DotDot
                 THEN normparts(Tail(comps),
                                IF acc = <<>> THEN acc ELSE SubSeq(acc, 1, Len(acc) - 1))
                 ELSE normparts(Tail(comps), Append(acc, c))

\* os.path.normpath(os.path.abspath(p)) of an absolute p: empty and "."
\* components go, ".." takes its parent along, and "/.." is "/"
normpath(p) == normparts(p, <<>>)

\* os.path.dirname of a normalized path; dirname("/") is "/"
dirname(p) == IF p = <<>> THEN <<>> ELSE SubSeq(p, 1, Len(p) - 1)

\* os.path.basename of a normalized path; basename("/") is ""
basename(p) == IF p = <<>> THEN <<>> ELSE p[Len(p)]

\* os.path.isdir(os.path.join(current, ...)) on the directories ds
isdir(ds, p) == p \in ds

\* all the directories os.makedirs(p, exist_ok=True) leaves in place
makedirs(ds, p) == ds \cup {SubSeq(p, 1, k) : k \in 0..Len(p)}

max_levels == 5
fallback_levels == 2

RECURSIVE walk_up(_, _, _)
\* the while loop of _detect_project_root: the first ancestor, nearest first,
\* that holds .git or assets/.visualizer, within max_levels
walk_up(ds, current, levels) ==
  IF levels >= max_levels THEN [found |-> FALSE, dir |-> current]
  ELSE IF isdir(ds, current \o <<DotGit>>) THEN [found |-> TRUE, dir |-> current]
  ELSE IF isdir(ds, current \o <<Assets, DotVisualizer>>)
         THEN [found |-> TRUE, dir |-> current]
  ELSE IF dirname(current) = current THEN [found |-> FALSE, dir |-> current]
  ELSE walk_up(ds, dirname(current), levels + 1)

RECURSIVE climb(_, _)
\* the fallback loop: n times to the parent, stopping at "/"
climb(current, n) ==
  IF n = 0 \/ dirname(current) = current THEN current
  ELSE climb(dirname(current), n - 1)

_detect_project_root(ds, file_path) ==
  LET start == dirname(normpath(file_path))
      hit == walk_up(ds, start, 0)
  IN IF hit.found THEN hit.dir ELSE climb(start, fallback_levels)

RECURSIVE common_len(_, _)
common_len(a, b) ==
  IF a = <<>> \/ b = <<>> \/ Head(a) # Head(b) THEN 0
  ELSE 1 + common_len(Tail(a), Tail(b))

\* os.path.relpath(target, root) of two normalized absolute paths, as components
relpath(target, root) ==
  LET i == common_len(target, root)
      ups == [k \in 1..(Len(root) - i) |-> DotDot]
      rel == ups \o SubSeq(target, i + 1, Len(target))
  IN IF rel = <<>> THEN <<Dot>> ELSE rel

RECURSIVE join_rel(_)
\* the text of a relative path: its components joined by the separator
join_rel(comps) ==
  IF comps = <<>> THEN <<>>
  ELSE IF Len(comps) = 1 THEN Head(comps)
  ELSE Head(comps) \o <<Sep>> \o join_rel(Tail(comps))

RECURSIVE join_abs(_)
\* the text of an absolute path: "/" alone, or a separator before each component
join_abs(comps) ==
  IF comps = <<>> THEN <<>> ELSE <<Sep>> \o Head(comps) \o join_abs(Tail(comps))
abs_text(p) == IF p = <<>> THEN <<Sep>> ELSE join_abs(p)

RECURSIVE text_str(_)
\* the string an atom text stands for
text_str(text) == IF text = <<>> THEN "" ELSE Head(text) \o text_str(Tail(text))

\* text.replace(a, "_") for each atom a of olds
replace_all(text, olds) ==
  [i \in 1..Len(text) |-> IF text[i] \in olds THEN "_" ELSE text[i]]

\* rel_path.startswith("..")
starts_with_dotdot(text) == Len(text) >= 2 /\ text[1] = "." /\ text[2] = "."

RECURSIVE split_text(_, _)
\* the components a text names: a new one begins after each separator
split_text(text, acc) ==
  IF text = <<>> THEN <<<<text_str(acc)>>>>
  ELSE IF Head(text) = Sep THEN <<<<text_str(acc)>>>> \o split_text(Tail(text), <<>>)
       ELSE split_text(Tail(text), Append(acc, Head(text)))

\* os.path.join(storage_dir, filename) of line 55, for a filename that does
\* not begin with a separator: the path goes on below storage_dir with the
\* components of the filename
join_path(storage_dir, filename) == storage_dir \o split_text(filename, <<>>)

\* a name in which only the dots are replaced
safe_name_separated(target_path, root_path) ==
  LET rel_path == join_rel(relpath(target_path, root_path))
  IN IF starts_with_dotdot(rel_path)
       THEN replace_all(abs_text(target_path), {".", ":"})
       ELSE replace_all(rel_path, {"."})

\* a name made of the last component alone
safe_name_basename(target_path, root_path) ==
  replace_all(basename(target_path), {"."})

\* lines 33-45: the file name of the cache entry
safe_name(target_path, root_path) ==
  LET rel_path == join_rel(relpath(target_path, root_path))
  IN IF starts_with_dotdot(rel_path)
       THEN replace_all(abs_text(target_path), {Sep, ".", ":"})
       ELSE replace_all(rel_path, {Sep, "."})

\* A root hint: None (or ""), or a path.
NoRoot == [some |-> FALSE, p |-> <<>>]
Root(p) == [some |-> TRUE, p |-> p]

\* a resolver that keeps the cache directory beside the target (the storage_dir
\* of line 48) while naming the entry after the root
_get_storage_path_beside(ds, target, root) ==
  LET target_path == normpath(target)
      root_path == normpath(IF root.some THEN root.p
                            ELSE _detect_project_root(ds, target_path))
      storage_dir == dirname(target_path) \o <<Assets, DotVisualizer>>
      filename == <<"meta_" \o text_str(safe_name(target_path, root_path)) \o ".json">>
  IN [root |-> root_path,
      path |-> storage_dir \o <<filename>>,
      dirs |-> IF storage_dir \in ds THEN ds ELSE makedirs(ds, storage_dir)]

\* _get_storage_path: the root used, the cache path, and the directories after
\* the call.  Each component of the file name is one string, so that two
\* names are equal when their characters are.  _detect_project_root always returns a directory, so the branch
\* for a root that is still missing (lines 46-49) is never taken.
_get_storage_path(ds, target, root) ==
  LET target_path == normpath(target)
      root_path == normpath(IF root.some THEN root.p
                            ELSE _detect_project_root(ds, target_path))
      storage_dir == root_path \o <<Assets, DotVisualizer>>
      filename == <<"meta_">> \o safe_name(target_path, root_path) \o <<".json">>
  IN [root |-> root_path,
      path |-> join_path(storage_dir, filename),
      dirs |-> IF storage_dir \in ds THEN ds ELSE makedirs(ds, storage_dir)]

(***************************************************************************)
(* The analyzers, as far as the orchestrator sees them.                    *)
(***************************************************************************)
\* filePath.endswith(ext), ext being "." and one more atom
ends_with(comp, ext) ==
  Len(comp) >= 2 /\ comp[Len(comp) - 1] = "." /\ comp[Len(comp)] = ext

\* getParser with a default analyzer in place of None
getParser_lenient(filePath) ==
  LET name == IF filePath = <<>> THEN <<>> ELSE filePath[Len(filePath)]
  IN CASE ends_with(name, "py") -> "python"
       [] ends_with(name, "m") -> "matlab"
       [] OTHER -> "cpp"

\* getParser: the analyzer for a path, "none" for every other extension.
\* It looks at the end of the path as given, that is at its last component.
getParser(filePath) ==
  LET name == IF filePath = <<>> THEN <<>> ELSE filePath[Len(filePath)]
  IN CASE ends_with(name, "py") -> "python"
       [] ends_with(name, "m") -> "matlab"
       [] ends_with(name, "cpp") \/ ends_with(name, "h") -> "cpp"
       [] OTHER -> "none"

\* What the source file holds when it is scanned: text the analyzer cannot
\* open or parse ("broken"), or one of two versions of a valid source.
Sources == {"broken", "v1", "v2"}

\* an analyzer that swallows its failure and returns what it has
parse_swallowed(kind, src) == FALSE

\* parser.parse(filePath) raises: the file cannot be opened or is no valid source
parse_raises(kind, src) == src = "broken"

\* parser.parse(filePath): the fresh document.  Of the analyzer's fields the
\* model keeps "type" and "functions"; no analyzer sets "comments".
parse(kind, src) ==
  JObj(<<Member("type", JStr(kind)),
         Member("functions",
                JList(IF src = "v1" THEN <<JStr("f")>> ELSE <<JStr("f"), JStr("g")>>))>>)

(***************************************************************************)
(* The block-structured analyzer (matlab_parser.py).  A line of the source *)
(* is what the analyzer reads of it:                                       *)
(*   indent : the width of its leading white space                         *)
(*   kind   : what codeLine is: "blank" (empty or comment only),           *)
(*            "classdef", "properties", "methods" (also events and         *)
(*            enumeration), "function", "open" (a line that begins with    *)
(*            if/for/while/switch/try/parfor), "inline" (such a line that  *)
(*            also holds the end of its block, as in "if c, s; end"),      *)
(*            "end" (the bare word end), "stmt" (anything else)            *)
(*   name   : the class or function named, else the first identifier      *)
(*   text   : its characters, without the leading white space            *)
(* Function names are plain (no get.x / set.x forms).                      *)
(***************************************************************************)
Line(indent, kind, name, text) ==
  [indent |-> indent, kind |-> kind, name |-> name, text |-> text]

\* The order of the names that are sorted.
NameOrder == <<"A", "f", "g", "h", "m", "x", "x2", "xy", "y">>
RECURSIVE sorted_strings(_)
\* sorted(list(names))
sorted_strings(names) ==
  IF names = {} THEN <<>>
  ELSE LET first == CHOOSE n \in names :
                      \A m \in names :
                        (CHOOSE i \in 1..Len(NameOrder) : NameOrder[i] = n)
                          <= (CHOOSE i \in 1..Len(NameOrder) : NameOrder[i] = m)
       IN <<JStr(first)>> \o sorted_strings(names \ {first})

\* The state of the pass over the lines (lines 19-41).  None is 0 for a line
\* or class index and -1 for an indentation.
MatlabStart ==
  [functions |-> <<>>, signatures |-> EmptyDict, definitions |-> EmptyDict,
   locations |-> EmptyDict, classDetails |-> <<>>,
   currentClass |-> 0, inProperties |-> FALSE, classIndent |-> -1, propsIndent |-> -1,
   funcStartLine |-> 0, funcName |-> "", funcNestLevel |-> 0,
   allMethodNames |-> {}, allPropertyNames |-> {}]

\* lines[funcStartLine:funcEndLine + 1], as the numbers of its first and last line
line_range(first, last) == JList(<<JNum(first), JNum(last)>>)
\* the code of a line, as a signature
code_of(i) == JNum(i)

\* a tracker that lowers the depth at every end
track_body_unguarded(st, line, i) ==
  IF st.funcStartLine = 0 THEN st
  ELSE IF line.kind \in {"open", "inline"} THEN [st EXCEPT !.funcNestLevel = @ + 1]
  ELSE IF line.kind = "end" THEN [st EXCEPT !.funcNestLevel = @ - 1]
  ELSE st

\* a tracker that closes the function at the first end it meets
track_body_first_end(st, line, i) ==
  IF st.funcStartLine = 0 \/ line.kind # "end" THEN st
  ELSE [st EXCEPT !.definitions = SetKey(@, st.funcName, line_range(st.funcStartLine, i)),
                  !.funcStartLine = 0, !.funcName = "", !.funcNestLevel = 0]

\* lines 55-68: the nest depth of the function body that is tracked
track_body(st, line, i) ==
  IF st.funcStartLine = 0 THEN st
  ELSE IF line.kind \in {"open", "inline"}
         THEN [st EXCEPT !.funcNestLevel = @ + 1]
  ELSE IF line.kind = "end"
         THEN IF st.funcNestLevel > 0
                THEN [st EXCEPT !.funcNestLevel = @ - 1]
                ELSE [st EXCEPT !.definitions =
                                   IF st.funcName # ""
                                     THEN SetKey(@, st.funcName,
                                                 line_range(st.funcStartLine, i))
                                     ELSE @,
                                !.funcStartLine = 0, !.funcName = "", !.funcNestLevel = 0]
  ELSE st

\* a class that ends at any end
class_ends_at_any_end(st, line) == st.currentClass # 0 /\ line.kind = "end"

\* line 86
class_ends(st, line) ==
  st.currentClass # 0 /\ line.kind = "end" /\ line.indent <= st.classIndent

\* lines 71-83
class_def(st, line, i) ==
  [st EXCEPT !.classDetails = Append(@, [name |-> line.name, properties |-> <<>>,
                                         methods |-> <<>>]),
             !.currentClass = Len(st.classDetails) + 1,
             !.signatures = SetKey(@, line.name, code_of(i)),
             !.locations = SetKey(@, line.name, JNum(i)),
             !.classIndent = line.indent]

\* a standalone function whose body is not tracked
standalone_function_untracked(st, line, i) ==
  [st EXCEPT !.functions = Append(@, line.name),
             !.signatures = SetKey(@, line.name, code_of(i)),
             !.locations = SetKey(@, line.name, JNum(i)),
             !.allMethodNames = @ \cup {line.name}]

\* lines 99-107
standalone_function(st, line, i) ==
  [st EXCEPT !.functions = Append(@, line.name),
             !.signatures = SetKey(@, line.name, code_of(i)),
             !.locations = SetKey(@, line.name, JNum(i)),
             !.funcStartLine = i, !.funcName = line.name, !.funcNestLevel = 0,
             !.allMethodNames = @ \cup {line.name}]

\* lines 135-175
method_function(st, line, i) ==
  [st EXCEPT !.inProperties = FALSE,
             !.funcStartLine = i, !.funcName = line.name, !.funcNestLevel = 0,
             !.allMethodNames = @ \cup {line.name},
             !.locations = SetKey(@, line.name, JNum(i)),
             !.classDetails[st.currentClass].methods =
                 Append(@, [name |-> line.name, signature |-> code_of(i)]),
             !.signatures = SetKey(@, line.name, code_of(i))]

\* lines 178-191
property_line(st, line, i) ==
  LET class == st.classDetails[st.currentClass]
  IN IF \/ line.name = ""
        \/ line.name \in {"end", "properties", "methods", "events", "enumeration",
                          "classdef", "function"}
        \/ \E k \in 1..Len(class.properties) : class.properties[k] = line.name
       THEN st
       ELSE [st EXCEPT !.classDetails[st.currentClass].properties = Append(@, line.name),
                       !.locations = SetKey(SetKey(@, class.name \o "." \o line.name, JNum(i)),
                                            line.name, JNum(i)),
                       !.allPropertyNames = @ \cup {line.name}]

\* the body of the loop, lines 43-191, for line i
matlab_line(st, line, i) ==
  IF line.kind = "blank" THEN st
  ELSE LET s1 == track_body(st, line, i)
       IN IF line.kind = "classdef" THEN class_def(s1, line, i)
          ELSE IF class_ends(s1, line)
                 THEN [s1 EXCEPT !.currentClass = 0, !.classIndent = -1,
                                 !.inProperties = FALSE, !.propsIndent = -1]
          ELSE IF s1.currentClass = 0
                 THEN IF line.kind = "function" THEN standalone_function(s1, line, i)
                      ELSE s1
          ELSE IF line.kind = "properties"
                 THEN [s1 EXCEPT !.inProperties = TRUE, !.propsIndent = line.indent]
          ELSE IF s1.inProperties /\ line.kind = "end" /\ line.indent <= s1.propsIndent
                 THEN [s1 EXCEPT !.inProperties = FALSE, !.propsIndent = -1]
          ELSE IF line.kind = "methods"
                 THEN [s1 EXCEPT !.inProperties = FALSE, !.propsIndent = -1]
          ELSE IF line.kind = "function" THEN method_function(s1, line, i)
          ELSE IF s1.inProperties THEN property_line(s1, line, i)
          ELSE s1

RECURSIVE matlab_pass(_, _, _)
matlab_pass(lines, i, st) ==
  IF i > Len(lines) THEN st ELSE matlab_pass(lines, i + 1, matlab_line(st, lines[i], i))

(***************************************************************************)
(* The three patterns of _extract_dependencies, on a text that is a        *)
(* sequence of characters.  \w is a letter, a digit or "_", \s is a blank  *)
(* or a line break; re.IGNORECASE makes the qualifier match in any case.   *)
(***************************************************************************)
\* the lower case of a character; the capitals that occur are A, B, J, O
Lower(c) ==
  IF c = "O" THEN "o" ELSE IF c = "B" THEN "b" ELSE IF c = "J" THEN "j"
  ELSE IF c = "A" THEN "a" ELSE c
WordChars ==
  {"a", "b", "c", "d", "e", "f", "g", "h", "i", "j", "k", "l", "m", "n", "o", "p", "q",
   "r", "s", "t", "u", "v", "w", "x", "y", "z", "A", "B", "J", "O", "1", "2", "_"}
IsWord(text, i) == i >= 1 /\ i <= Len(text) /\ text[i] \in WordChars
IsSpace(text, i) == i >= 1 /\ i <= Len(text) /\ text[i] \in {" ", "\n"}
IsChar(text, i, c) == i >= 1 /\ i <= Len(text) /\ text[i] = c

RECURSIVE skip_spaces(_, _)
\* \s* from i: the first position that holds no white space
skip_spaces(text, i) == IF IsSpace(text, i) THEN skip_spaces(text, i + 1) ELSE i
RECURSIVE word_run(_, _)
\* \w+ from i, greedy: the number of word characters
word_run(text, i) == IF IsWord(text, i) THEN 1 + word_run(text, i + 1) ELSE 0
RECURSIVE concat(_, _, _)
\* the string of the characters i .. j
concat(text, i, j) == IF i > j THEN "" ELSE text[i] \o concat(text, i + 1, j)

starts_at(text, i, word) ==
  /\ i + Len(word) - 1 <= Len(text)
  /\ \A k \in 1..Len(word) : Lower(text[i + k - 1]) = word[k]
\* (?:self|obj|this) at i: the length matched, 0 if none
qualifier_at(text, i) ==
  IF starts_at(text, i, <<"o", "b", "j">>) THEN 3
  ELSE IF starts_at(text, i, <<"s", "e", "l", "f">>) THEN 4
  ELSE IF starts_at(text, i, <<"t", "h", "i", "s">>) THEN 4
  ELSE 0
\* (?:self|obj|this)\s*\.\s* at i: the position of the name, 0 if none
qualified_at(text, i) ==
  LET q == qualifier_at(text, i)
      dot == skip_spaces(text, i + q)
  IN IF q > 0 /\ IsChar(text, dot, ".") THEN skip_spaces(text, dot + 1) ELSE 0

NoMatch == [found |-> FALSE, name |-> "", next |-> 0]
Match(name, next) == [found |-> TRUE, name |-> name, next |-> next]

\* call_pattern, line 231, tried at i
call_pattern(text, i) ==
  LET j == qualified_at(text, i)
      r == IF j = 0 THEN 0 ELSE word_run(text, j)
      paren == skip_spaces(text, j + r)
  IN IF r > 0 /\ IsChar(text, paren, "(")
       THEN Match(concat(text, j, j + r - 1), paren + 1) ELSE NoMatch

\* direct_call_pattern, line 239, tried at i
direct_call_pattern(text, i) ==
  LET r == word_run(text, i)
      paren == skip_spaces(text, i + r)
  IN IF /\ ~IsChar(text, i - 1, ".") /\ ~IsWord(text, i - 1)
        /\ r > 0 /\ IsChar(text, paren, "(")
       THEN Match(concat(text, i, i + r - 1), paren + 1) ELSE NoMatch

\* prop_pattern, line 248, tried at i: \w+ takes the whole name; when "("
\* follows it, the engine gives one character back and the lookahead
\* holds before the last character of the name
prop_pattern(text, i) ==
  LET j == qualified_at(text, i)
      r == IF j = 0 THEN 0 ELSE word_run(text, j)
  IN IF r = 0 THEN NoMatch
     ELSE IF ~IsChar(text, skip_spaces(text, j + r), "(")
       THEN Match(concat(text, j, j + r - 1), j + r)
     ELSE IF r > 1 THEN Match(concat(text, j, j + r - 2), j + r - 1)
     ELSE NoMatch

RECURSIVE finditer(_, _, _)
\* re.finditer: the names matched, left to right without overlap
finditer(pattern(_, _), text, i) ==
  IF i > Len(text) THEN {}
  ELSE LET m == pattern(text, i)
       IN IF m.found THEN {m.name} \cup finditer(pattern, text, m.next)
          ELSE finditer(pattern, text, i + 1)

\* _extract_dependencies, lines 213-257
_extract_dependencies(methodBody, allMethods, allProperties, currentMethod) ==
  LET calls == {c \in finditer(call_pattern, methodBody, 1) :
                  c \in allMethods /\ c # currentMethod}
               \cup {c \in finditer(direct_call_pattern, methodBody, 1) :
                       /\ c \in allMethods /\ c # currentMethod
                       /\ c \notin {"if", "for", "while", "switch", "try", "catch",
                                    "function", "end"}}
      uses_properties == {r \in finditer(prop_pattern, methodBody, 1) : r \in allProperties}
  IN JObj(<<Member("calls", JList(sorted_strings(calls))),
            Member("uses_properties", JList(sorted_strings(uses_properties)))>>)

RECURSIVE join_lines(_, _, _)
\* '\n'.join(lines[first - 1:last]); the indentation of a line adds only
\* white space next to a line break
join_lines(lines, first, last) ==
  IF first > last THEN <<>>
  ELSE lines[first].text
         \o (IF first < last THEN <<"\n">> ELSE <<>>)
         \o join_lines(lines, first + 1, last)

RECURSIVE dependency_analysis(_, _, _, _)
\* lines 195-200: an entry for each body with a call or a property use
dependency_analysis(lines, st, k, acc) ==
  IF k > Len(st.definitions.v) THEN acc
  ELSE LET methodName == st.definitions.v[k].key
           funcBody == st.definitions.v[k].val
           deps == _extract_dependencies(join_lines(lines, funcBody.v[1].n, funcBody.v[2].n),
                                         st.allMethodNames, st.allPropertyNames, methodName)
       IN dependency_analysis(lines, st, k + 1,
            IF GetKey(deps, "calls").v # <<>> \/ GetKey(deps, "uses_properties").v # <<>>
              THEN SetKey(acc, methodName, deps) ELSE acc)

NameList(names) == JList([k \in 1..Len(names) |-> JStr(names[k])])
ClassInfo(class) ==
  JObj(<<Member("name", JStr(class.name)),
         Member("properties",
                JList([k \in 1..Len(class.properties) |->
                         JObj(<<Member("name", JStr(class.properties[k])),
                                Member("attributes", JList(<<>>))>>)])),
         Member("methods",
                JList([k \in 1..Len(class.methods) |->
                         JObj(<<Member("name", JStr(class.methods[k].name)),
                                Member("signature", class.methods[k].signature),
                                Member("attributes", JList(<<>>))>>)]))>>)

\* lines 193-211: the dependencies and the document
matlab_document(lines, st) ==
     JObj(<<Member("type", JStr("matlab")),
            Member("functions", NameList(st.functions)),
            Member("classes", JList(<<>>)),
            Member("classDetails",
                   JList([k \in 1..Len(st.classDetails) |-> ClassInfo(st.classDetails[k])])),
            Member("signatures", st.signatures),
            Member("definitions", st.definitions),
            Member("dependencies", dependency_analysis(lines, st, 1, EmptyDict)),
            Member("locations", st.locations)>>)

\* MatlabParser.parse, lines 15-211, on the lines of the file
matlab_parse(lines) == matlab_document(lines, matlab_pass(lines, 1, MatlabStart))

(***************************************************************************)
(* The Python analyzer (python_parser.py).  A source is the sequence of    *)
(* its top-level statements: a def (type "def", plain or async), a class   *)
(* (type "class") whose body is a sequence of defs and assignments, or     *)
(* another statement (type "other"); a def or a class is preceded by       *)
(* `decorators` decorator lines, each on one line, and a def has a body of *)
(* one line.  ast.parse gives each statement its lines: lineno is the line *)
(* of the def or class keyword, or, where the interpreter numbers a        *)
(* decorated statement from its first decorator, the line of that          *)
(* decorator; end_lineno exists only in the former case.                   *)
(***************************************************************************)
Stmt0(type, name, decorators, body) ==
  [type |-> type, name |-> name, decorators |-> decorators, body |-> body]
Def(name, decorators) == Stmt0("def", name, decorators, <<>>)
Assign(name) == Stmt0("assign", name, 0, <<>>)
Other == Stmt0("other", "", 0, <<>>)
Class(name, decorators, body) == Stmt0("class", name, decorators, body)

RECURSIVE body_size(_)
\* the number of lines of a sequence of statements
body_size(stmts) ==
  IF stmts = <<>> THEN 0
  ELSE LET n == Head(stmts)
           own == IF n.type = "def" THEN n.decorators + 2
                  ELSE IF n.type = "class"
                         THEN n.decorators + 1
                                + (IF n.body = <<>> THEN 1 ELSE body_size(n.body))
                  ELSE 1
       IN own + body_size(Tail(stmts))

RECURSIVE place(_, _)
\* the statements with their lines: first, keyword and last
place(stmts, start) ==
  IF stmts = <<>> THEN <<>>
  ELSE LET n == Head(stmts)
           size == body_size(<<n>>)
       IN <<[type |-> n.type, name |-> n.name, decorators |-> n.decorators,
             first |-> start, keyword |-> start + n.decorators,
             last |-> start + size - 1,
             body |-> place(n.body, start + n.decorators + 1)]>>
            \o place(Tail(stmts), start + size)

Placed(tree) ==
  {tree[k] : k \in 1..Len(tree)}
    \cup UNION {{tree[k].body[j] : j \in 1..Len(tree[k].body)} : k \in 1..Len(tree)}

\* fileContent.splitlines(), each line as what the pattern of line 110 sees
splitlines(tree, count) ==
  [j \in 1..count |->
     IF \E n \in Placed(tree) : n.type \in {"def", "class"} /\ n.keyword = j
       THEN "def_or_class"
     ELSE IF \E n \in Placed(tree) : n.first <= j /\ j < n.keyword
       THEN "decorator"
     ELSE "other"]

\* node.lineno
lineno(node, at_decorator) == IF at_decorator THEN node.first ELSE node.keyword

scan_limit == 50

\* the line the syntax tree gives, unscanned
_find_def_lineno_unscanned(lines, node, at_decorator) == lineno(node, at_decorator)

\* _find_def_lineno, lines 87-113
_find_def_lineno(lines, node, at_decorator) ==
  IF node.decorators = 0 THEN lineno(node, at_decorator)
  ELSE LET startLine == lineno(node, at_decorator) - 1
           limit == IF at_decorator THEN startLine + scan_limit ELSE node.last
           hits == {i \in startLine..(limit - 1) :
                      i < Len(lines) /\ lines[i + 1] = "def_or_class"}
       IN IF hits = {} THEN lineno(node, at_decorator)
          ELSE (CHOOSE i \in hits : \A h \in hits : i <= h) + 1

\* _get_signature, lines 115-140, of a def without arguments
_get_signature(node) == JStr("def " \o node.name \o "()")
\* a source that is the signature line alone
_get_source_first_line(node, at_decorator) ==
  IF at_decorator THEN JStr("") ELSE line_range(node.keyword, node.keyword)

\* _get_source, lines 157-168: the segment from the node's line through its
\* last line, as the numbers of the two; where the syntax tree carries no
\* end positions, get_source_segment fails and the fallback returns ""
_get_source(node, at_decorator) ==
  IF at_decorator THEN JStr("") ELSE line_range(node.keyword, node.last)

PythonStart ==
  [functions |-> <<>>, classes |-> <<>>, signatures |-> EmptyDict,
   definitions |-> EmptyDict, locations |-> EmptyDict, classDetails |-> <<>>]

RECURSIVE class_body(_, _, _, _, _, _, _)
\* lines 43-73: the statements of a class body
class_body(lines, class, items, k, at_decorator, st, classInfo) ==
  IF k > Len(items) THEN [st |-> st, classInfo |-> classInfo]
  ELSE LET item == items[k]
           qualifiedName == class.name \o "." \o item.name
           defLine == _find_def_lineno(lines, item, at_decorator)
       IN IF item.type = "def"
            THEN class_body(lines, class, items, k + 1, at_decorator,
                   [st EXCEPT
                      !.signatures = SetKey(@, item.name, _get_signature(item)),
                      !.definitions =
                          SetKey(SetKey(@, item.name, _get_source(item, at_decorator)),
                                 qualifiedName, _get_source(item, at_decorator)),
                      !.locations =
                          SetKey(SetKey(@, qualifiedName, JNum(defLine)),
                                 item.name, JNum(defLine))],
                   [classInfo EXCEPT !.methods =
                      Append(@, JObj(<<Member("name", JStr(item.name)),
                                       Member("attributes", JList(<<>>)),
                                       Member("signature", _get_signature(item))>>))])
          ELSE IF item.type = "assign"
            THEN class_body(lines, class, items, k + 1, at_decorator,
                   [st EXCEPT
                      !.locations =
                          SetKey(SetKey(@, qualifiedName, JNum(item.keyword)),
                                 item.name, JNum(item.keyword))],
                   [classInfo EXCEPT !.properties =
                      Append(@, JObj(<<Member("name", JStr(item.name)),
                                       Member("attributes", JList(<<>>))>>))])
          ELSE class_body(lines, class, items, k + 1, at_decorator, st, classInfo)

RECURSIVE tree_body(_, _, _, _, _)
\* lines 22-75: the top-level statements
tree_body(lines, tree, k, at_decorator, st) ==
  IF k > Len(tree) THEN st
  ELSE LET node == tree[k]
       IN IF node.type = "def"
            THEN tree_body(lines, tree, k + 1, at_decorator,
                   [st EXCEPT
                      !.functions = Append(@, node.name),
                      !.signatures = SetKey(@, node.name, _get_signature(node)),
                      !.definitions = SetKey(@, node.name, _get_source(node, at_decorator)),
                      !.locations =
                          SetKey(@, node.name,
                                 JNum(_find_def_lineno(lines, node, at_decorator)))])
          ELSE IF node.type = "class"
            THEN LET s1 == [st EXCEPT
                              !.classes = Append(@, node.name),
                              !.locations =
                                  SetKey(@, node.name,
                                         JNum(_find_def_lineno(lines, node, at_decorator)))]
                     done == class_body(lines, node, node.body, 1, at_decorator, s1,
                                        [properties |-> <<>>, methods |-> <<>>])
                 IN tree_body(lines, tree, k + 1, at_decorator,
                      [done.st EXCEPT !.classDetails =
                         Append(@, JObj(<<Member("name", JStr(node.name)),
                                          Member("properties", JList(done.classInfo.properties)),
                                          Member("methods", JList(done.classInfo.methods))>>))])
          ELSE tree_body(lines, tree, k + 1, at_decorator, st)

\* PythonParser.parse, lines 7-85
python_parse(stmts, at_decorator) ==
  LET tree == place(stmts, 1)
      lines == splitlines(tree, body_size(stmts))
      st == tree_body(lines, tree, 1, at_decorator, PythonStart)
  IN JObj(<<Member("type", JStr("python")),
            Member("functions", JList([k \in 1..Len(st.functions) |-> JStr(st.functions[k])])),
            Member("classes", JList([k \in 1..Len(st.classes) |-> JStr(st.classes[k])])),
            Member("classDetails", JList(st.classDetails)),
            Member("signatures", st.signatures),
            Member("definitions", st.definitions),
            Member("locations", st.locations)>>)

(***************************************************************************)
(* Python's operations on a loaded JSON value of any type.                 *)
(***************************************************************************)
\* key in val: raises TypeError for a number or null
in_raises(val) == val.t \in {"num", "null"}
in_result(val, key) ==
  CASE val.t = "obj" -> HasKey(val, key)
    [] val.t = "list" -> \E i \in 1..Len(val.v) : val.v[i] = JStr(key)
    [] val.t = "str" -> val.s = key
    [] OTHER -> FALSE

\* val[key]: only a dict holding the key gives a value
getitem_raises(val, key) == ~(val.t = "obj" /\ HasKey(val, key))

\* val[key] = x: only a dict takes a string key
setitem_raises(val) == val.t # "obj"

\* The comment entry addComment builds (lines 203-208).
CommentEntry(nodeLabel, commentText) ==
  JObj(<<Member("nodeLabel", JStr(nodeLabel)), Member("text", JStr(commentText)),
         Member("title", JStr("")), Member("timestamp", JNum(0))>>)

\* What a path holds: whether a file is there, whether it can be opened, its text.
NoEntry == [exists |-> FALSE, readable |-> FALSE, text |-> <<>>]
entry(fs, unread, path) ==
  IF path \in DOMAIN fs
    THEN [exists |-> TRUE, readable |-> path \notin unread, text |-> fs[path]]
    ELSE NoEntry

\* os.path.exists + open + json.load: the loaded value, or not ok when there is
\* no file, it cannot be opened, or its text is not one JSON value
load_json(e) == IF e.exists /\ e.readable THEN loads(e.text) ELSE ParseFail

Outcome(raised, val) == [raised |-> raised, val |-> val]

\* scanFile with the comments initialised and the prior document never consulted
preserve_comments_drop(parsedData, prior) ==
  Outcome(FALSE, SetKey(parsedData, "comments", JList(<<>>)))

\* scanFile without the try/except around the load of the prior document
preserve_comments_unguarded(parsedData, prior) ==
  IF \/ ~prior.ok
     \/ in_raises(prior.val)
     \/ in_result(prior.val, "comments") /\ getitem_raises(prior.val, "comments")
    THEN Outcome(TRUE, JStr("Exception"))
    ELSE Outcome(FALSE,
                 IF in_result(prior.val, "comments")
                   THEN SetKey(parsedData, "comments", GetKey(prior.val, "comments"))
                   ELSE SetKey(parsedData, "comments", JList(<<>>)))

\* scanFile lines 149-161: carry the prior comments over, else start empty.
\* Whatever the lines inside the try raise, "except Exception: pass" drops.
preserve_comments(parsedData, prior) ==
  LET kept ==
        IF /\ prior.ok
           /\ ~in_raises(prior.val)
           /\ in_result(prior.val, "comments")
           /\ ~getitem_raises(prior.val, "comments")
          THEN SetKey(parsedData, "comments", GetKey(prior.val, "comments"))
          ELSE parsedData
  IN Outcome(FALSE, IF HasKey(kept, "comments") THEN kept
                    ELSE SetKey(kept, "comments", JList(<<>>)))


\* saveComments that starts from an empty object whatever it loaded
overwrite_comments_alone(prior, comments) ==
  Outcome(FALSE, SetKey(EmptyDict, "comments", comments))

\* saveComments lines 174-183: data = {} or the loaded value; data["comments"] = comments
overwrite_comments(prior, comments) ==
  LET data == IF prior.ok THEN prior.val ELSE EmptyDict
  IN IF setitem_raises(data) THEN Outcome(TRUE, JStr("TypeError"))
     ELSE Outcome(FALSE, SetKey(data, "comments", comments))

\* addComment that puts the new entry first
append_comment_front(prior, nodeLabel, commentText) ==
  LET data == IF prior.ok /\ prior.val.t = "obj" THEN prior.val ELSE EmptyDict
      old == IF HasKey(data, "comments") /\ GetKey(data, "comments").t = "list"
               THEN GetKey(data, "comments").v ELSE <<>>
  IN Outcome(FALSE, SetKey(data, "comments",
                           JList(<<CommentEntry(nodeLabel, commentText)>> \o old)))

\* addComment lines 192-208
append_comment(prior, nodeLabel, commentText) ==
  LET data == IF prior.ok THEN prior.val ELSE EmptyDict
      added == CommentEntry(nodeLabel, commentText)
  IN IF in_raises(data) THEN Outcome(TRUE, JStr("TypeError"))
     ELSE IF ~in_result(data, "comments") /\ setitem_raises(data)
            THEN Outcome(TRUE, JStr("TypeError"))
     ELSE LET d1 == IF in_result(data, "comments") THEN data
                    ELSE SetKey(data, "comments", JList(<<>>))
          IN IF getitem_raises(d1, "comments") THEN Outcome(TRUE, JStr("TypeError"))
             ELSE IF GetKey(d1, "comments").t # "list"
                    THEN Outcome(TRUE, JStr("AttributeError"))
             ELSE Outcome(FALSE,
                          SetKey(d1, "comments",
                                 JList(Append(GetKey(d1, "comments").v, added))))

(***************************************************************************)
(* The hierarchy builder.                                                  *)
(***************************************************************************)
\* The atoms of the model in the order of their text as it is (upper case
\* first), and in the order of their lower-cased text.
AtomOrderRaw == <<".", "A", "DS_Store", "Sub", "_", "assets", "b", "c", "d", "f", "git",
                  "hidden", "node_modules", "p", "py", "s", "t", "txt", "visualizer">>
AtomOrder == <<".", "_", "A", "assets", "b", "c", "d", "DS_Store", "f", "git", "hidden",
               "node_modules", "p", "py", "s", "Sub", "t", "txt", "visualizer">>
atom_rank(order, a) == CHOOSE i \in 1..Len(order) : order[i] = a

RECURSIVE text_less(_, _, _)
\* a < b on names, atom by atom in the given order of atoms
text_less(order, a, b) ==
  IF b = <<>> THEN FALSE
  ELSE IF a = <<>> THEN TRUE
  ELSE IF atom_rank(order, Head(a)) # atom_rank(order, Head(b))
         THEN atom_rank(order, Head(a)) < atom_rank(order, Head(b))
  ELSE text_less(order, Tail(a), Tail(b))

RECURSIVE sorted_by(_, _)
sorted_by(order, names) ==
  IF names = {} THEN <<>>
  ELSE LET first == CHOOSE n \in names : \A m \in names \ {n} : ~text_less(order, m, n)
       IN <<first>> \o sorted_by(order, names \ {first})

\* sorted(os.listdir(path)) without the key
sorted_names_raw(names) == sorted_by(AtomOrderRaw, names)

\* sorted(os.listdir(path), key=lambda s: s.lower())
sorted_names(names) == sorted_by(AtomOrder, names)

\* os.listdir(path): the names of the directories and files right below path
listdir(ds, fileset, path) ==
  {q[Len(path) + 1] : q \in {e \in ds \cup fileset :
                               Len(e) = Len(path) + 1 /\ SubSeq(e, 1, Len(path)) = path}}

\* a listing that is never refused
listdir_permitted(unread, path) == FALSE

\* os.listdir(path) raises PermissionError
listdir_raises(unread, path) == path \in unread

ignored == {DotGit, <<"node_modules">>, <<"__pycache__">>, <<".", "DS_Store">>,
            <<"venv">>, <<".", "next">>}

\* the loop of _buildHierarchy that skips only the names of the ignore-set
skips_ignored_only(item) == item \in ignored

\* line 227: item in ignored or item.startswith('.')
skips(item) == item \in ignored \/ (item # <<>> /\ Head(item) = ".")

RECURSIVE _buildHierarchy(_, _, _, _)
RECURSIVE hierarchy_children(_, _, _, _, _)
\* a directory whose listing is refused keeps children = [] (lines 218, 231-232)
_buildHierarchy(ds, fileset, unread, path) ==
  IF isdir(ds, path)
    THEN JObj(<<Member("name", JStr(text_str(basename(path)))),
                Member("type", JStr("folder")),
                Member("path", JStr(text_str(abs_text(path)))),
                Member("children",
                       JList(IF listdir_raises(unread, path) THEN <<>>
                             ELSE hierarchy_children(ds, fileset, unread, path,
                                    sorted_names(listdir(ds, fileset, path)))))>>)
    ELSE JObj(<<Member("name", JStr(text_str(basename(path)))),
                Member("type", JStr("file")),
                Member("path", JStr(text_str(abs_text(path))))>>)
hierarchy_children(ds, fileset, unread, path, items) ==
  IF items = <<>> THEN <<>>
  ELSE LET item == Head(items)
           rest == hierarchy_children(ds, fileset, unread, path, Tail(items))
       IN IF skips(item) THEN rest
          ELSE <<_buildHierarchy(ds, fileset, unread, path \o <<item>>)>> \o rest

(***************************************************************************)
(* The callers and what they pass.                                         *)
(***************************************************************************)
Procs == {"p1", "p2"}

ProjDir == <<<<"p">>>>
SubDir == <<<<"p">>, <<"s">>>>
FilePy == SubDir \o <<<<"f", ".", "py">>>>
FileTxt == SubDir \o <<<<"f", ".", "txt">>>>
SourceFiles == {FilePy, FileTxt}
BaseDirs == {<<>>, ProjDir, SubDir}

\* Who calls and with what: one caller, whose calls therefore never overlap,
\* with every kind of argument; and two callers that overlap, with few.
CommentX == JList(<<CommentEntry("n", "x")>>)
AllInputs ==
  [callers |-> {"p1"},
   targets |-> {FilePy, FileTxt}, hints |-> {Root(ProjDir)}, srcs |-> {"broken", "v2"},
   lists |-> {CommentX}, texts |-> {"c1", "c2"}, folders |-> {ProjDir},
   noted |-> {FilePy}]
FewInputs ==
  [callers |-> Procs,
   targets |-> {FilePy}, hints |-> {Root(ProjDir)}, srcs |-> {"v2"},
   lists |-> {CommentX}, texts |-> {"c1"}, folders |-> {ProjDir},
   noted |-> {FilePy}]

\* The operations started in one behaviour.
MaxOps == 3
\* The tokens one write to the temporary file carries.
ChunkLen == 16

\* What a cache file may hold before the first call: nothing usable (empty,
\* cut short), JSON that is no object, or an object with or without comments.
PriorComments == JList(<<CommentEntry("n", "y"), CommentEntry("n", "x"),
                         CommentEntry("n", "y")>>)
PriorTexts ==
  { <<>>,
    <<Tok("{", "", 0), Tok("key", "type", 0)>>,
    dumps(JList(<<JStr("comments")>>)),
    dumps(JStr("comments")),
    dumps(JNum(1)),
    dumps(JNull),
    dumps(parse("python", "v1")),
    dumps(SetKey(parse("python", "v1"), "comments", PriorComments)),
    dumps(JObj(<<Member("comments", JNull)>>)) }
PriorDocument == dumps(SetKey(parse("python", "v1"), "comments", PriorComments))

VARIABLES
  dirs,        \* the directories that exist
  files,       \* path -> text, for the files that exist besides the scanned sources
  unreadable,  \* the files that cannot be opened for reading, the directories
               \* that cannot be listed
  pc,          \* where each caller is: "idle", "load", "write", "dump"
  call,        \* the call each caller is in, with its arguments
  outputPath,  \* the local outputPath of that call
  data,        \* the local parsedData / data / structure of that call
  result,      \* how the caller's last call ended
  before,      \* the cache entry as that call found it
  passed,      \* the <<path, document>> pairs handed to _write_json_atomic
  stale,       \* the paths replaced by a call that had found another entry there
  nops         \* the calls started

vars == <<dirs, files, unreadable, pc, call, outputPath, data, result, before,
          passed, stale, nops>>

NoCall == [op |-> "none", path |-> <<>>, root |-> NoRoot, src |-> "",
           comments |-> JNull, nodeLabel |-> "", text |-> ""]
NoResult == [st |-> "none", val |-> JNull]
Returned(val) == [st |-> "returned", val |-> val]
Raised(exc) == [st |-> "raised", val |-> exc]
Unsupported == JObj(<<Member("error", JStr("Unsupported file type"))>>)

\* a writer that opens the target itself
tmp_path_in_place(p, path) == path

\* tempfile.mkstemp(dir=dir_name, suffix='.tmp'): a name no other caller has
tmp_path(p, path) == dirname(path) \o <<<<"tmp", p, ".tmp">>>>

Remove(fs, path) == [q \in DOMAIN fs \ {path} |-> fs[q]]
Put(fs, path, text) == [q \in DOMAIN fs \cup {path} |-> IF q = path THEN text ELSE fs[q]]

InitCommon ==
  /\ pc = [p \in Procs |-> "idle"]
  /\ call = [p \in Procs |-> NoCall]
  /\ outputPath = [p \in Procs |-> <<>>]
  /\ data = [p \in Procs |-> JNull]
  /\ result = [p \in Procs |-> NoResult]
  /\ before = [p \in Procs |-> NoEntry]
  /\ passed = {}
  /\ stale = {}
  /\ nops = 0

\* No cache yet.
InitFresh ==
  /\ dirs = BaseDirs
  /\ files = <<>>
  /\ unreadable = {}
  /\ InitCommon

\* A cache entry left by earlier runs, damaged or locked since.
InitPrior ==
  /\ \E target \in AllInputs.targets, h \in AllInputs.hints, text \in PriorTexts,
        locked \in BOOLEAN :
        LET r == _get_storage_path(BaseDirs, target, h)
        IN /\ dirs = r.dirs
           /\ files = Put(<<>>, r.path, text)
           /\ (locked \/ target # FilePy) => text = PriorDocument
           /\ unreadable = IF locked THEN {r.path} ELSE {}
  /\ InitCommon

Init == InitFresh \/ InitPrior

(***************************************************************************)
(* The operations.  A call is split where it touches the shared files:     *)
(* resolving the path (and analyzing the source), loading the prior        *)
(* document, and the steps of the atomic writer.                           *)
(***************************************************************************)
\* A caller starts a call when it is between calls.
CanCall(p, in) ==
  /\ p \in in.callers
  /\ pc[p] = "idle"
  /\ nops < MaxOps

Begin(p, c, r, doc, res, nextpc) ==
  /\ call' = [call EXCEPT ![p] = c]
  /\ outputPath' = [outputPath EXCEPT ![p] = r.path]
  /\ dirs' = r.dirs
  /\ before' = [before EXCEPT ![p] = entry(files, unreadable, r.path)]
  /\ data' = [data EXCEPT ![p] = doc]
  /\ result' = [result EXCEPT ![p] = res]
  /\ pc' = [pc EXCEPT ![p] = nextpc]
  /\ nops' = nops + 1
  /\ UNCHANGED <<files, unreadable, passed, stale>>

\* the load of the prior document ends the call with an exception, or leaves
\* the document to write
Loaded(p, out) ==
  /\ before' = [before EXCEPT ![p] = entry(files, unreadable, outputPath[p])]
  /\ IF out.raised
       THEN /\ result' = [result EXCEPT ![p] = Raised(out.val)]
            /\ pc' = [pc EXCEPT ![p] = "idle"]
            /\ data' = [data EXCEPT ![p] = JNull]
       ELSE /\ data' = [data EXCEPT ![p] = out.val]
            /\ pc' = [pc EXCEPT ![p] = "write"]
            /\ UNCHANGED result
  /\ UNCHANGED <<dirs, files, unreadable, call, outputPath, passed, stale, nops>>

\* scanFile lines 141-147: resolve, dispatch, analyze
ScanFileCall(p, in) ==
  /\ CanCall(p, in)
  /\ \E target \in in.targets, root \in in.hints, src \in in.srcs :
       LET c == [NoCall EXCEPT !.op = "scanFile", !.path = target, !.root = root,
                               !.src = src]
           r == _get_storage_path(dirs, target, root)
           parser == getParser(target)
       IN IF parser = "none"
            THEN Begin(p, c, r, JNull, Returned(Unsupported), "idle")
          ELSE IF parse_raises(parser, src)
            THEN Begin(p, c, r, JNull, Raised(JStr("ParseError")), "idle")
          ELSE Begin(p, c, r, parse(parser, src), NoResult, "load")

\* scanFile lines 149-161
ScanFileLoad(p) ==
  /\ pc[p] = "load" /\ call[p].op = "scanFile"
  /\ Loaded(p, preserve_comments(data[p],
                                 load_json(entry(files, unreadable, outputPath[p]))))

\* saveComments line 168
SaveCommentsCall(p, in) ==
  /\ CanCall(p, in)
  /\ \E filePath \in in.noted, root \in in.hints, comments \in in.lists :
       LET c == [NoCall EXCEPT !.op = "saveComments", !.path = filePath, !.root = root,
                               !.comments = comments]
       IN Begin(p, c, _get_storage_path(dirs, filePath, root), JNull, NoResult, "load")

\* saveComments lines 174-183
SaveCommentsLoad(p) ==
  /\ pc[p] = "load" /\ call[p].op = "saveComments"
  /\ Loaded(p, overwrite_comments(load_json(entry(files, unreadable, outputPath[p])),
                                  call[p].comments))

\* addComment line 190
AddCommentCall(p, in) ==
  /\ CanCall(p, in)
  /\ \E filePath \in in.noted, root \in in.hints, text \in in.texts :
       LET c == [NoCall EXCEPT !.op = "addComment", !.path = filePath, !.root = root,
                               !.nodeLabel = "n", !.text = text]
       IN Begin(p, c, _get_storage_path(dirs, filePath, root), JNull, NoResult, "load")

\* addComment lines 192-208
AddCommentLoad(p) ==
  /\ pc[p] = "load" /\ call[p].op = "addComment"
  /\ Loaded(p, append_comment(load_json(entry(files, unreadable, outputPath[p])),
                              call[p].nodeLabel, call[p].text))

\* scanFolder lines 122-134; the tree is listed in one step
ScanFolderCall(p, in) ==
  /\ CanCall(p, in)
  /\ \E folderPath \in in.folders :
       LET c == [NoCall EXCEPT !.op = "scanFolder", !.path = folderPath,
                               !.root = Root(folderPath)]
           r == _get_storage_path(dirs, folderPath, Root(folderPath))
           storage_dir == normpath(folderPath) \o <<Assets, DotVisualizer>>
           ds == IF storage_dir \in r.dirs THEN r.dirs ELSE makedirs(r.dirs, storage_dir)
           outputFile == storage_dir \o <<<<"folder_structure", ".json">>>>
           structure == _buildHierarchy(ds, SourceFiles \cup DOMAIN files, unreadable,
                                        folderPath)
       IN Begin(p, c, [path |-> outputFile, dirs |-> ds], structure, NoResult, "write")

(***************************************************************************)
(* _write_json_atomic(path, data)                                          *)
(***************************************************************************)
\* line 103: the temporary file, empty, beside the target
Mkstemp(p) ==
  /\ pc[p] = "write"
  /\ files' = Put(files, tmp_path(p, outputPath[p]), <<>>)
  /\ passed' = passed \cup {<<outputPath[p], data[p]>>}
  /\ pc' = [pc EXCEPT ![p] = "dump"]
  /\ UNCHANGED <<dirs, unreadable, call, outputPath, data, result, before, stale, nops>>

\* lines 106-107: the next tokens of the text reach the temporary file
chunk_after(text, done) ==
  SubSeq(text, Len(done) + 1,
         IF Len(done) + ChunkLen < Len(text) THEN Len(done) + ChunkLen ELSE Len(text))
Dump(p) ==
  /\ pc[p] = "dump"
  /\ LET tmp == tmp_path(p, outputPath[p])
     IN /\ Len(files[tmp]) < Len(dumps(data[p]))
        /\ files' = Put(files, tmp, files[tmp] \o chunk_after(dumps(data[p]), files[tmp]))
  /\ UNCHANGED <<dirs, unreadable, pc, call, outputPath, data, result, before,
                 passed, stale, nops>>

\* line 109: os.replace(tmp_path, path), the files after it
replace(fs, tmp, path) == Remove(Put(fs, path, fs[tmp]), tmp)

\* line 109 and the return of the caller
Replace(p) ==
  /\ pc[p] = "dump"
  /\ LET tmp == tmp_path(p, outputPath[p])
     IN /\ files[tmp] = dumps(data[p])
        /\ files' = replace(files, tmp, outputPath[p])
  /\ unreadable' = unreadable \ {outputPath[p]}
  /\ stale' = IF entry(files, unreadable, outputPath[p]) = before[p] THEN stale
              ELSE stale \cup {outputPath[p]}
  /\ result' = [result EXCEPT ![p] = Returned(data[p])]
  /\ pc' = [pc EXCEPT ![p] = "idle"]
  /\ UNCHANGED <<dirs, call, outputPath, data, before, passed, nops>>

\* an except branch that re-raises without the unlink
cleanup_skipped(fs, tmp) == fs

\* lines 110-114: the files after the cleanup of a failed write
cleanup(fs, tmp) == IF tmp \in DOMAIN fs THEN Remove(fs, tmp) ELSE fs

\* lines 110-114: the dump or the replace fails (disk full, permission)
WriteFail(p) ==
  /\ pc[p] = "dump"
  /\ files' = cleanup(files, tmp_path(p, outputPath[p]))
  /\ result' = [result EXCEPT ![p] = Raised(JStr("OSError"))]
  /\ pc' = [pc EXCEPT ![p] = "idle"]
  /\ UNCHANGED <<dirs, unreadable, call, outputPath, data, before, passed, stale, nops>>

Step(p, in) ==
  \/ ScanFileCall(p, in)
  \/ ScanFileLoad(p)
  \/ SaveCommentsCall(p, in)
  \/ SaveCommentsLoad(p)
  \/ AddCommentCall(p, in)
  \/ AddCommentLoad(p)
  \/ ScanFolderCall(p, in)
  \/ Mkstemp(p)
  \/ Dump(p)
  \/ Replace(p)
  \/ WriteFail(p)

\* Callers that overlap freely, on a tree without any cache.
Next == \E p \in Procs : Step(p, FewInputs)
Spec == InitFresh /\ [][Next]_vars

\* Calls run one at a time.  The cache may hold anything at the start.
NextSerial == \E p \in Procs : Step(p, AllInputs)
SpecSerial == Init /\ [][NextSerial]_vars

(***************************************************************************)
(* Several targets under one root: one caller scans three files, two of    *)
(* which have the same name once separators and dots are underscores, and  *)
(* keeps comments for the first of them only.                              *)
(***************************************************************************)
FlatPy == ProjDir \o <<<<"s", "_", "f", ".", "py">>>>
TopPy == ProjDir \o <<<<"f", ".", "py">>>>
IsolationInputs ==
  [callers |-> {"p1"},
   targets |-> {FilePy, FlatPy, TopPy}, hints |-> {Root(ProjDir)}, srcs |-> {"v2"},
   lists |-> {CommentX}, texts |-> {"c1"}, folders |-> {ProjDir},
   noted |-> {FilePy}]
NextIsolation == \E p \in Procs : Step(p, IsolationInputs)
SpecIsolation == InitFresh /\ [][NextIsolation]_vars

(***************************************************************************)
(* Storage path resolution on its own: one caller resolves paths, one call *)
(* after the other, in a deep tree that may hold project markers.          *)
(***************************************************************************)
Chain == <<<<"a">>, <<"b">>, <<"c">>, <<"d">>, <<"e">>, <<"g">>, <<"h">>>>
Prefix(k) == SubSeq(Chain, 1, k)
TreeDirs == {Prefix(k) : k \in 0..Len(Chain)}
FileIn(dir) == dir \o <<<<"f", ".", "py">>>>

\* where a tree may hold .git, and where a cache directory of earlier runs
GitPlaces == {Prefix(2), Prefix(3)}
CachePlaces == {Prefix(1)}

ResolveInputs ==
  [callers |-> {"p1"},
   targets |-> {FileIn(Prefix(0)), FileIn(Prefix(1)), FileIn(Prefix(3)),
                FileIn(Prefix(7)), Prefix(4) \o <<DotDot, <<"f", ".", "py">>>>},
   hints |-> {NoRoot, Root(Prefix(1)), Root(Prefix(7)), Root(Prefix(3) \o <<DotDot>>)},
   srcs |-> {"v2"}, lists |-> {CommentX}, texts |-> {"c1"}, folders |-> {ProjDir}]

InitResolve ==
  /\ \E gits \in SUBSET GitPlaces, caches \in SUBSET CachePlaces :
       dirs = TreeDirs \cup {d \o <<DotGit>> : d \in gits}
                       \cup {d \o <<Assets>> : d \in caches}
                       \cup {d \o <<Assets, DotVisualizer>> : d \in caches}
  /\ files = <<>>
  /\ unreadable = {}
  /\ InitCommon

\* _get_storage_path(target_path, root_path), lines 11-55
GetStoragePathCall(p, in) ==
  /\ CanCall(p, in)
  /\ \E target \in in.targets, root \in in.hints :
       LET r == _get_storage_path(dirs, target, root)
       IN /\ call' = [call EXCEPT ![p] = [NoCall EXCEPT !.op = "resolve",
                                                        !.path = target, !.root = root]]
          /\ outputPath' = [outputPath EXCEPT ![p] = r.path]
          /\ dirs' = r.dirs
  /\ nops' = nops + 1
  /\ UNCHANGED <<files, unreadable, pc, data, result, before, passed, stale>>

NextResolve == \E p \in Procs : GetStoragePathCall(p, ResolveInputs)
SpecResolve == InitResolve /\ [][NextResolve]_vars

(***************************************************************************)
(* The names of cache entries: two callers resolve targets against one     *)
(* given root.  Among the targets are one outside the root and files whose *)
(* names begin with two dots.                                              *)
(***************************************************************************)
DotDotX == <<".", ".", "x", ".", "py">>
NameRoot == Prefix(1)
NameInputs ==
  [callers |-> Procs,
   targets |-> {FileIn(Prefix(1)), FileIn(Prefix(2)), FileIn(Prefix(3)),
                Prefix(1) \o <<<<"b_f", ".", "py">>>>,
                Prefix(1) \o <<<<"b">>, <<"f_py">>>>,
                Prefix(1) \o <<DotDotX>>,
                Prefix(1) \o <<<<"_a">>, DotDotX>>,
                Prefix(2) \o <<DotDot, DotDot, <<"q">>, <<"f", ".", "py">>>>,
                <<<<"q">>, <<"f", ".", "py">>>>},
   hints |-> {Root(NameRoot), Root(NameRoot \o <<Dot>>)},
   srcs |-> {"v2"}, lists |-> {CommentX}, texts |-> {"c1"}, folders |-> {ProjDir}]

NextNames == \E p \in Procs : GetStoragePathCall(p, NameInputs)
SpecNames == InitResolve /\ [][NextNames]_vars

(***************************************************************************)
(* Calls without a root hint, after an earlier scan without a hint has     *)
(* made the cache entry of the file and comments were saved in it.  Other  *)
(* calls name a root, and folders are scanned.                             *)
(***************************************************************************)
HintlessHome == _get_storage_path(BaseDirs, FilePy, NoRoot)
HintlessInputs ==
  [callers |-> {"p1"},
   targets |-> {FilePy}, hints |-> {NoRoot, Root(SubDir)}, srcs |-> {"v2"},
   lists |-> {CommentX}, texts |-> {"c1"}, folders |-> {ProjDir},
   noted |-> {FilePy}]

InitScanned ==
  /\ dirs = HintlessHome.dirs
  /\ files = Put(<<>>, HintlessHome.path, PriorDocument)
  /\ unreadable = {}
  /\ InitCommon

NextHintless == \E p \in Procs : Step(p, HintlessInputs)
SpecHintless == InitScanned /\ [][NextHintless]_vars

(***************************************************************************)
(* The hierarchy builder on its own, over trees that hold ignored and      *)
(* hidden entries, names in both cases, nested folders and folders that    *)
(* cannot be listed.                                                       *)
(***************************************************************************)
TreeTop == <<<<"t">>>>
TreeSub == TreeTop \o <<<<"Sub">>>>
TreeFile == TreeTop \o <<<<"b", ".", "py">>>>
OptionalDirs ==
  {{TreeTop \o <<DotGit>>}, {TreeTop \o <<<<"node_modules">>>>},
   {TreeTop \o <<<<".", "hidden">>>>}, {TreeSub, TreeSub \o <<<<"d">>>>}}
OptionalFiles ==
  {{TreeFile, TreeTop \o <<<<".", "DS_Store">>>>}, {TreeTop \o <<<<"A", ".", "py">>>>},
   {TreeSub \o <<<<"c", ".", "py">>>>, TreeTop \o <<<<"node_modules">>, <<"f">>>>}}
TreeInputs ==
  [callers |-> {"p1"},
   targets |-> {FilePy}, hints |-> {NoRoot}, srcs |-> {"v2"},
   lists |-> {CommentX}, texts |-> {"c1"}, folders |-> {TreeTop, TreeSub, TreeFile}]

InitTree ==
  /\ \E ds \in SUBSET OptionalDirs, fs \in SUBSET OptionalFiles,
        locked \in SUBSET {TreeTop, TreeSub} :
       /\ dirs = {<<>>, TreeTop} \cup UNION ds
       /\ files = [q \in {f \in UNION fs : dirname(f) \in dirs} |-> <<>>]
       /\ unreadable = locked \cap dirs
  /\ InitCommon

\* _buildHierarchy(path), lines 215-245
BuildHierarchyCall(p, in) ==
  /\ CanCall(p, in)
  /\ \E path \in in.folders :
       LET structure == _buildHierarchy(dirs, DOMAIN files, unreadable, path)
       IN /\ call' = [call EXCEPT ![p] = [NoCall EXCEPT !.op = "buildHierarchy",
                                                        !.path = path]]
          /\ data' = [data EXCEPT ![p] = structure]
          /\ result' = [result EXCEPT ![p] = Returned(structure)]
  /\ nops' = nops + 1
  /\ UNCHANGED <<dirs, files, unreadable, pc, outputPath, before, passed, stale>>

NextTree == \E p \in Procs : BuildHierarchyCall(p, TreeInputs)
SpecTree == InitTree /\ [][NextTree]_vars

(***************************************************************************)
(* The block-structured analyzer on its own: a caller hands it the lines   *)
(* of a file.  The files are a function f, followed by a function g,       *)
(* alone or as the methods of a class, with a body of statements and       *)
(* control blocks; and a class A with a property x and a method y that     *)
(* reads it.  Each comes indented by depth or not indented, with or        *)
(* without a comment line at the top.                                      *)
(***************************************************************************)
BodyKinds ==
  {<<>>, <<"stmt">>, <<"open", "stmt", "end">>,
   <<"open", "open", "stmt", "end", "end">>, <<"open", "end", "open", "end">>,
   <<"stmt", "open", "stmt", "end", "stmt">>,
   <<"inline">>, <<"open", "inline", "end">>, <<"inline", "stmt">>}
IndentUnits == {0, 2}
LeadingComments == {0, 1}

Blank == Line(0, "blank", "", <<"%">>)
Stmt(indent) == Line(indent, "stmt", "s", <<"s", ";">>)
End(indent) == Line(indent, "end", "end", <<"e", "n", "d">>)
\* function <name>(obj), the name being one letter
Function(indent, name) ==
  Line(indent, "function", name,
       <<"f", "u", "n", "c", "t", "i", "o", "n", " ", name, "(", "o", "b", "j", ")">>)
ClassDef(indent, name) ==
  Line(indent, "classdef", name, <<"c", "l", "a", "s", "s", "d", "e", "f", " ", name>>)
Properties(indent) ==
  Line(indent, "properties", "properties",
       <<"p", "r", "o", "p", "e", "r", "t", "i", "e", "s">>)
Methods(indent) ==
  Line(indent, "methods", "methods", <<"m", "e", "t", "h", "o", "d", "s">>)
Open(indent) == Line(indent, "open", "for", <<"f", "o", "r", " ", "i">>)
Inline(indent) ==
  Line(indent, "inline", "if", <<"i", "f", " ", "c", ",", " ", "s", ";", " ", "e", "n", "d">>)

RECURSIVE body_lines(_, _, _, _)
\* the lines of a body, each indented by its depth
body_lines(kinds, base, unit, depth) ==
  IF kinds = <<>> THEN <<>>
  ELSE LET k == Head(kinds)
           here == IF k = "end" THEN depth - 1 ELSE depth
           next == IF k = "open" THEN depth + 1 ELSE here
           first == IF k = "stmt" THEN Stmt(base + unit * here)
                    ELSE IF k = "end" THEN End(base + unit * here)
                    ELSE IF k = "open" THEN Open(base + unit * here)
                    ELSE Inline(base + unit * here)
       IN <<first>> \o body_lines(Tail(kinds), base, unit, next)

Lead(n) == [k \in 1..n |-> Blank]

FunctionSource(kinds, unit, lead) ==
  Lead(lead) \o <<Function(0, "f")>> \o body_lines(kinds, unit, unit, 0) \o <<End(0)>>
    \o <<Function(0, "g"), Stmt(unit), End(0)>>

MethodSource(kinds, unit, lead) ==
  Lead(lead) \o <<ClassDef(0, "A"), Methods(unit)>>
    \o <<Function(2 * unit, "f")>> \o body_lines(kinds, 3 * unit, unit, 0)
    \o <<End(2 * unit)>>
    \o <<Function(2 * unit, "g"), Stmt(3 * unit), End(2 * unit)>>
    \o <<End(unit), End(0)>>

\* classdef A / properties / x / end / methods / function y(obj) / obj.x; /
\* end / end / end, the blocks indented by block and their members by member
ClassASource(block, member, lead) ==
  Lead(lead) \o
  <<ClassDef(0, "A"),
    Properties(block),
    Line(member, "stmt", "x", <<"x">>),
    End(block),
    Methods(block),
    Function(member, "y"),
    Line(member, "stmt", "obj", <<"o", "b", "j", ".", "x", ";">>),
    End(member),
    End(block),
    End(0)>>
\* function f / function g / s; / end / s; / end, alone or in a class
NestedSource(unit, lead, inClass) ==
  LET base == IF inClass THEN 2 * unit ELSE 0
  IN Lead(lead)
       \o (IF inClass THEN <<ClassDef(0, "A"), Methods(unit)>> ELSE <<>>)
       \o <<Function(base, "f"), Function(base + unit, "g"), Stmt(base + 2 * unit),
            End(base + unit), Stmt(base + unit), End(base)>>
       \o (IF inClass THEN <<End(unit), End(0)>> ELSE <<>>)
\* function f / s; / end / function f / s; / s; / end
RedefinedSource(unit, lead) ==
  Lead(lead) \o <<Function(0, "f"), Stmt(unit), End(0),
                  Function(0, "f"), Stmt(unit), Stmt(unit), End(0)>>
MemberIndents == {0, 2, 4}
ClassASources ==
  {ClassASource(block, member, lead) :
     block \in IndentUnits, member \in MemberIndents, lead \in LeadingComments}

MatlabSources ==
  {FunctionSource(kinds, unit, 0) : kinds \in BodyKinds, unit \in IndentUnits}
  \cup {MethodSource(kinds, unit, 1) : kinds \in BodyKinds, unit \in IndentUnits}
  \cup {NestedSource(unit, lead, inClass) :
     unit \in IndentUnits, lead \in LeadingComments, inClass \in BOOLEAN}
  \cup {RedefinedSource(unit, lead) : unit \in IndentUnits, lead \in LeadingComments}
  \cup ClassASources

FileM == ProjDir \o <<<<"f", ".", "m">>>>
MatlabInputs ==
  [callers |-> {"p1"},
   targets |-> {FileM}, hints |-> {NoRoot}, srcs |-> MatlabSources,
   lists |-> {CommentX}, texts |-> {"c1"}, folders |-> {ProjDir}]

\* MatlabParser().parse(filePath), lines 15-211
MatlabParseCall(p, in) ==
  /\ CanCall(p, in)
  /\ \E path \in in.targets, src \in in.srcs :
       LET document == matlab_parse(src)
       IN /\ call' = [call EXCEPT ![p] = [NoCall EXCEPT !.op = "matlab_parse",
                                                        !.path = path, !.src = src]]
          /\ data' = [data EXCEPT ![p] = document]
          /\ result' = [result EXCEPT ![p] = Returned(document)]
  /\ nops' = nops + 1
  /\ UNCHANGED <<dirs, files, unreadable, pc, outputPath, before, passed, stale>>

NextMatlab == \E p \in Procs : MatlabParseCall(p, MatlabInputs)
SpecMatlab == InitFresh /\ [][NextMatlab]_vars

(***************************************************************************)
(* The Python analyzer on its own: a caller hands it a source of one or    *)
(* two top-level statements, under either numbering of decorated           *)
(* statements.                                                             *)
(***************************************************************************)
FirstStatements ==
  {Def("f", 0), Def("f", 2), Def("x", 0), Other,
   Class("B", 0, <<Def("m", 0)>>)}
  \cup {Class("A", d, body) :
          d \in {0, 1},
          body \in {<<>>, <<Def("m", 2)>>, <<Assign("x")>>, <<Def("m", 1), Assign("x")>>}}
SecondStatements ==
  {Def("x", 0), Def("f", 1), Class("B", 0, <<Def("m", 0)>>),
   Class("A", 0, <<Assign("x")>>), Class("C", 1, <<Def("f", 0)>>)}
PythonSources ==
  {[stmts |-> stmts, at_decorator |-> b] :
     stmts \in {<<a>> : a \in FirstStatements}
               \cup {<<a, b>> : a \in FirstStatements, b \in SecondStatements},
     b \in BOOLEAN}

PythonInputs ==
  [callers |-> {"p1"},
   targets |-> {FilePy}, hints |-> {NoRoot}, srcs |-> PythonSources,
   lists |-> {CommentX}, texts |-> {"c1"}, folders |-> {ProjDir}]

\* PythonParser().parse(filePath), lines 7-85
PythonParseCall(p, in) ==
  /\ CanCall(p, in)
  /\ \E path \in in.targets, src \in in.srcs :
       LET document == python_parse(src.stmts, src.at_decorator)
       IN /\ call' = [call EXCEPT ![p] = [NoCall EXCEPT !.op = "python_parse",
                                                        !.path = path, !.src = src]]
          /\ data' = [data EXCEPT ![p] = document]
          /\ result' = [result EXCEPT ![p] = Returned(document)]
  /\ nops' = nops + 1
  /\ UNCHANGED <<dirs, files, unreadable, pc, outputPath, before, passed, stale>>

NextPython == \E p \in Procs : PythonParseCall(p, PythonInputs)
SpecPython == InitFresh /\ [][NextPython]_vars

(***************************************************************************)
(* The dependency extractor on its own: a caller hands it the body of a    *)
(* method h that holds one statement, a qualifier, a dot, a name and what  *)
(* follows the name.                                                       *)
(***************************************************************************)
Qualifiers ==
  {<<"o", "b", "j">>, <<"s", "e", "l", "f">>, <<"t", "h", "i", "s">>,
   <<"O", "B", "J">>, <<"m", "y", "o", "b", "j">>}
ReferredNames == {<<"x">>, <<"x", "y">>, <<"x", "2">>}
Followers ==
  {<<";">>, <<"(", "1", ")", ";">>, <<" ", "(", "1", ")", ";">>,
   <<" ", "=", " ", "1", ";">>, <<".", "y", ";">>}
MethodBody(qualifier, name, follower) ==
  Function(0, "h").text \o <<"\n">> \o qualifier \o <<".">> \o name \o follower
    \o <<"\n">> \o End(0).text
ExtractInputs ==
  [callers |-> {"p1"},
   targets |-> {FileM}, hints |-> {NoRoot},
   srcs |-> {[methodBody |-> MethodBody(q, n, f), allMethods |-> {"h", "xy"},
              allProperties |-> props, currentMethod |-> "h"] :
               q \in Qualifiers, n \in ReferredNames, f \in Followers,
               props \in {{"x"}, {"x", "xy"}}},
   lists |-> {CommentX}, texts |-> {"c1"}, folders |-> {ProjDir}]

\* self._extract_dependencies(methodBody, allMethodNames, allPropertyNames, methodName)
ExtractDependenciesCall(p, in) ==
  /\ CanCall(p, in)
  /\ \E src \in in.srcs :
       LET deps == _extract_dependencies(src.methodBody, src.allMethods,
                                         src.allProperties, src.currentMethod)
       IN /\ call' = [call EXCEPT ![p] = [NoCall EXCEPT !.op = "_extract_dependencies",
                                                        !.src = src]]
          /\ data' = [data EXCEPT ![p] = deps]
          /\ result' = [result EXCEPT ![p] = Returned(deps)]
  /\ nops' = nops + 1
  /\ UNCHANGED <<dirs, files, unreadable, pc, outputPath, before, passed, stale>>

NextExtract == \E p \in Procs : ExtractDependenciesCall(p, ExtractInputs)
SpecExtract == InitFresh /\ [][NextExtract]_vars

(***************************************************************************)
(* The pass of the block-structured analyzer line by line: the caller is   *)
(* inside the loop of lines 43-191 and the next line of the file is any    *)
(* line; it leaves the loop after any line.                                *)
(***************************************************************************)
MaxLines == 4
ScanLines ==
  {ClassDef(0, "A"), Properties(2), Methods(2), Function(2, "f"), Open(4),
   End(0), End(2), End(4), Line(4, "stmt", "x", <<"x">>), Blank}
ScanInputs ==
  [callers |-> {"p1"},
   targets |-> {FileM}, hints |-> {NoRoot}, srcs |-> ScanLines,
   lists |-> {CommentX}, texts |-> {"c1"}, folders |-> {ProjDir}]

\* lines 16-41: the file is open and no line has been read
InitScan ==
  /\ dirs = BaseDirs
  /\ files = <<>>
  /\ unreadable = {}
  /\ pc = [p \in Procs |-> IF p \in ScanInputs.callers THEN "scanning" ELSE "idle"]
  /\ call = [p \in Procs |->
               IF p \in ScanInputs.callers
                 THEN [NoCall EXCEPT !.op = "matlab_scan", !.path = FileM, !.src = <<>>]
                 ELSE NoCall]
  /\ outputPath = [p \in Procs |-> <<>>]
  /\ data = [p \in Procs |-> IF p \in ScanInputs.callers THEN MatlabStart ELSE JNull]
  /\ result = [p \in Procs |-> NoResult]
  /\ before = [p \in Procs |-> NoEntry]
  /\ passed = {}
  /\ stale = {}
  /\ nops = 0

\* lines 43-191: one turn of the loop
ScanLine(p, in) ==
  /\ p \in in.callers
  /\ pc[p] = "scanning"
  /\ Len(call[p].src) < MaxLines
  /\ \E line \in in.srcs :
       /\ call' = [call EXCEPT ![p].src = Append(@, line)]
       /\ data' = [data EXCEPT ![p] = matlab_line(@, line, Len(call[p].src) + 1)]
  /\ UNCHANGED <<dirs, files, unreadable, pc, outputPath, result, before, passed, stale, nops>>

\* lines 193-211: the end of the file
ScanReturn(p, in) ==
  /\ p \in in.callers
  /\ pc[p] = "scanning"
  /\ pc' = [pc EXCEPT ![p] = "idle"]
  /\ result' = [result EXCEPT ![p] = Returned(matlab_document(call[p].src, data[p]))]
  /\ UNCHANGED <<dirs, files, unreadable, call, outputPath, data, before, passed, stale, nops>>

NextScan == \E p \in Procs : ScanLine(p, ScanInputs) \/ ScanReturn(p, ScanInputs)
SpecScan == InitScan /\ [][NextScan]_vars

(***************************************************************************)
(* Properties.                                                             *)
(***************************************************************************)
IsTmp(q) == q # <<>> /\ \E p \in Procs : q[Len(q)] = <<"tmp", p, ".tmp">>
AllIdle == \A p \in Procs : pc[p] = "idle"

\* The entry is an object with a "comments" member that a reader can load.
HoldsComments(e) ==
  /\ e.exists /\ e.readable
  /\ loads(e.text).ok
  /\ loads(e.text).val.t = "obj"
  /\ HasKey(loads(e.text).val, "comments")
CommentsOf(e) == GetKey(loads(e.text).val, "comments")
HoldsList(e) == HoldsComments(e) /\ CommentsOf(e).t = "list"
HasComment(doc, c) ==
  /\ doc.t = "obj" /\ HasKey(doc, "comments") /\ GetKey(doc, "comments").t = "list"
  /\ \E i \in 1..Len(GetKey(doc, "comments").v) : GetKey(doc, "comments").v[i] = c
IsPrefix(a, b) == Len(a) <= Len(b) /\ SubSeq(b, 1, Len(a)) = a
Supported(p) == getParser(call[p].path) # "none"
Analyzed(p) == Supported(p) /\ ~parse_raises(getParser(call[p].path), call[p].src)
Fresh(p) == parse(getParser(call[p].path), call[p].src)
ScanReturned(p) ==
  /\ call[p].op = "scanFile" /\ Analyzed(p)
  /\ pc[p] = "idle" /\ result[p].st = "returned"

\* C1: every file that is not a writer's temporary file holds the complete
\* text of one document handed to the atomic writer for that path, and a
\* reader loading it gets that document: never an empty, cut or mixed text
AtomicCachePath ==
  \A q \in DOMAIN files :
    IsTmp(q) \/ \E pd \in passed :
                  /\ pd[1] = q
                  /\ files[q] = dumps(pd[2])
                  /\ loads(files[q]) = Parsed(pd[2], Len(files[q]) + 1)
\* two writers are inside the writer for one path that already holds a
\* document, one of them with its temporary file written in part
TwoWritersOnePath ==
  \E p \in Procs, q \in Procs :
    /\ p # q /\ pc[p] = "dump" /\ pc[q] = "dump"
    /\ outputPath[p] = outputPath[q] /\ outputPath[p] \in DOMAIN files
    /\ Len(files[tmp_path(p, outputPath[p])]) > 0
    /\ Len(files[tmp_path(p, outputPath[p])]) < Len(dumps(data[p]))

\* C2: a scanFile that found a document with a "comments" member returns and
\* persists a document whose "comments" is that very value
RescanKeepsComments ==
  \A p \in Procs :
    (ScanReturned(p) /\ HoldsComments(before[p])) =>
      /\ HasKey(result[p].val, "comments")
      /\ GetKey(result[p].val, "comments") = CommentsOf(before[p])
      /\ files[outputPath[p]] = dumps(result[p].val)
\* a rescan of a newer source has kept three comments, two of them equal
RescanKeptDuplicates ==
  \E p \in Procs :
    /\ ScanReturned(p) /\ HoldsComments(before[p])
    /\ before[p].text = PriorDocument
    /\ result[p].val = SetKey(Fresh(p), "comments", PriorComments)
    /\ files[outputPath[p]] = dumps(result[p].val)

\* C3: a caller leaves the writer either with the document persisted and
\* returned, or with the failure raised, its temporary file gone and the
\* cache entry as the call found it
WriterExits ==
  [][\A p \in Procs :
       (pc[p] = "dump" /\ pc'[p] = "idle") =>
          \/ /\ result'[p] = Returned(data[p])
             /\ files'[outputPath[p]] = dumps(data[p])
             /\ tmp_path(p, outputPath[p]) \notin DOMAIN files'
          \/ /\ result'[p].st = "raised"
             /\ tmp_path(p, outputPath[p]) \notin DOMAIN files'
             /\ entry(files', unreadable', outputPath[p]) = before[p]]_vars
\* a write over an existing document has failed
WriteFailedOverDocument ==
  \E p \in Procs :
    /\ pc[p] = "idle" /\ result[p] = Raised(JStr("OSError"))
    /\ before[p].exists /\ before[p].text = PriorDocument
    /\ entry(files, unreadable, outputPath[p]) = before[p]
    /\ tmp_path(p, outputPath[p]) \notin DOMAIN files

LostOnlyByRace ==
  \A p \in Procs :
    (call[p].op = "addComment" /\ pc[p] = "idle" /\ result[p].st = "returned") =>
      LET doc == loads(files[outputPath[p]]).val
      IN \/ HasComment(doc, CommentEntry(call[p].nodeLabel, call[p].text))
         \/ outputPath[p] \in stale
         \/ GetKey(doc, "comments") \in AllInputs.lists
\* addComment has returned its document, and the document a scanFile wrote
\* last, without the comment, is what the cache holds
CommentLost ==
  \E p \in Procs, q \in Procs :
    /\ AllIdle
    /\ call[p].op = "addComment" /\ result[p].st = "returned"
    /\ HasComment(result[p].val, CommentEntry(call[p].nodeLabel, call[p].text))
    /\ call[q].op = "scanFile" /\ result[q].st = "returned"
    /\ outputPath[q] = outputPath[p]
    /\ files[outputPath[p]] = dumps(result[q].val)
    /\ ~HasComment(result[q].val, CommentEntry(call[p].nodeLabel, call[p].text))

\* C6: with calls one at a time, no step but the replace of a saveComments
\* takes an entry out of a persisted comment list or moves one: the list
\* before is a prefix of the list after; scanFile and addComment return what
\* they persist, and addComment adds its entry at the end
SaveReplaces ==
  \E p \in Procs :
    /\ call[p].op = "saveComments"
    /\ pc[p] = "dump" /\ pc'[p] = "idle" /\ result'[p].st = "returned"
CommentsPersist ==
  [][/\ \A q \in DOMAIN files :
          LET old == entry(files, unreadable, q)
              new == entry(files', unreadable', q)
          IN (~IsTmp(q) /\ ~SaveReplaces /\ new # old /\ HoldsList(old)) =>
                /\ HoldsList(new)
                /\ IsPrefix(CommentsOf(old).v, CommentsOf(new).v)
     /\ \A p \in Procs :
          (/\ call[p].op \in {"scanFile", "addComment"}
           /\ pc[p] = "dump" /\ pc'[p] = "idle" /\ result'[p].st = "returned") =>
             /\ loads(files'[outputPath[p]]).val = result'[p].val
             /\ (call[p].op = "addComment" /\ HoldsList(before[p])) =>
                   GetKey(result'[p].val, "comments").v =
                     Append(CommentsOf(before[p]).v,
                            CommentEntry(call[p].nodeLabel, call[p].text))]_vars
\* a rescan after an addComment has returned the prior comments and the
\* added one behind them
RescanAfterAdd ==
  \E p \in Procs :
    /\ ScanReturned(p)
    /\ \E c \in AllInputs.texts :
         GetKey(result[p].val, "comments") =
           JList(Append(PriorComments.v, CommentEntry("n", c)))
    /\ files[outputPath[p]] = dumps(result[p].val)

\* C7: scanFile of a path that ends in none of .py, .m, .cpp, .h has ended,
\* returning the "Unsupported file type" result, with the cache entry as it
\* found it
KnownExtensions == {"py", "m", "cpp", "h"}
UnknownExtension(path) ==
  path = <<>> \/ \A ext \in KnownExtensions : ~ends_with(path[Len(path)], ext)
UnsupportedIsReported ==
  \A p \in Procs :
    (call[p].op = "scanFile" /\ UnknownExtension(call[p].path)) =>
      /\ pc[p] = "idle"
      /\ result[p] = Returned(Unsupported)
      /\ entry(files, unreadable, outputPath[p]) = before[p]
\* an unsupported file was scanned: its cache entry, left by an earlier run,
\* is as it was
UnsupportedScanned ==
  \E p \in Procs :
    /\ call[p].op = "scanFile" /\ UnknownExtension(call[p].path)
    /\ result[p] = Returned(Unsupported)
    /\ before[p].exists
    /\ entry(files, unreadable, outputPath[p]) = before[p]

\* C8: scanFile of a source its analyzer cannot open or parse has ended by
\* raising, with the cache entry as it found it
AnalyzerFailurePropagates ==
  \A p \in Procs :
    (call[p].op = "scanFile" /\ Supported(p) /\ call[p].src = "broken") =>
      /\ pc[p] = "idle"
      /\ result[p].st = "raised"
      /\ entry(files, unreadable, outputPath[p]) = before[p]
\* the analyzer failed on a file whose cache entry holds comments
AnalyzerFailedOverDocument ==
  \E p \in Procs :
    /\ call[p].op = "scanFile" /\ call[p].src = "broken" /\ Supported(p)
    /\ result[p].st = "raised"
    /\ HoldsList(before[p]) /\ Len(CommentsOf(before[p]).v) > 0
    /\ entry(files, unreadable, outputPath[p]) = before[p]

\* C9: saveComments and addComment, whatever the cache file held, end by
\* returning a document that they have persisted, unless the write failed
CommentCallsNeverRaise ==
  \A p \in Procs :
    (/\ call[p].op \in {"saveComments", "addComment"}
     /\ pc[p] = "idle"
     /\ result[p] # Raised(JStr("OSError"))) =>
      /\ result[p].st = "returned"
      /\ files[outputPath[p]] = dumps(result[p].val)

\* C10: resolving once more, with the target and root of the call that has
\* just returned, gives the path that call gave and leaves the directories as
\* they are; so also where no root was given and the call made the cache
\* directory that root detection now finds
ResolveIdempotent ==
  \A p \in Procs :
    call[p].op = "resolve" =>
      LET again == _get_storage_path(dirs, call[p].path, call[p].root)
      IN /\ again.path = outputPath[p]
         /\ again.dirs = dirs
\* the first call, given no root, found .git too far up, fell back to the
\* directory two above the file's and made the cache directory there, where
\* no tree had one
ResolvedByFallback ==
  \E p \in Procs :
    /\ nops = 1
    /\ call[p].op = "resolve" /\ ~call[p].root.some
    /\ call[p].path = FileIn(Prefix(7))
    /\ Prefix(2) \o <<DotGit>> \in dirs
    /\ Prefix(5) \o <<Assets, DotVisualizer>> \in dirs
    /\ dirname(outputPath[p]) = Prefix(5) \o <<Assets, DotVisualizer>>
    /\ _detect_project_root(dirs, call[p].path) = Prefix(5)

\* the target of a resolution lies inside its root: the root is the target or
\* one of its ancestors
Inside(target, root) ==
  LET t == normpath(target)
      r == normpath(root)
  IN Len(r) <= Len(t) /\ SubSeq(t, 1, Len(r)) = r
\* the relative path with separators and dots replaced by underscores
SanitizedRelative(target, root) ==
  text_str(replace_all(join_rel(relpath(normpath(target), normpath(root))), {Sep, "."}))
\* the absolute path with separators, dots and colons replaced by underscores
SanitizedAbsolute(target) ==
  text_str(replace_all(abs_text(normpath(target)), {Sep, ".", ":"}))
CacheName(p) == text_str(outputPath[p][Len(outputPath[p])])
Resolved(p) == call[p].op = "resolve" /\ call[p].root.some

\* C11: the name of a resolved entry is made from the relative path when the
\* target is inside the root, and from the absolute path when it is outside
NameFollowsContainment ==
  \A p \in Procs :
    Resolved(p) =>
      CacheName(p) =
        IF Inside(call[p].path, call[p].root.p)
          THEN "meta_" \o SanitizedRelative(call[p].path, call[p].root.p) \o ".json"
          ELSE "meta_" \o SanitizedAbsolute(call[p].path) \o ".json"

\* C12: two different targets inside one root that were resolved to one
\* cache path have the same sanitized relative path
NoCollisionUnderRoot ==
  \A p \in Procs, q \in Procs :
    (/\ Resolved(p) /\ Resolved(q)
     /\ normpath(call[p].root.p) = normpath(call[q].root.p)
     /\ Inside(call[p].path, call[p].root.p) /\ Inside(call[q].path, call[q].root.p)
     /\ normpath(call[p].path) # normpath(call[q].path)
     /\ outputPath[p] = outputPath[q]) =>
      SanitizedRelative(call[p].path, call[p].root.p) =
        SanitizedRelative(call[q].path, call[q].root.p)

\* C13: after the scan without a hint that made the file's cache entry, every
\* scanFile, saveComments and addComment without a hint on that file resolves
\* to that entry and finds it there
HintlessPathSettled ==
  \A p \in Procs :
    (/\ call[p].op \in {"scanFile", "saveComments", "addComment"}
     /\ ~call[p].root.some
     /\ call[p].path = FilePy) =>
      /\ outputPath[p] = HintlessHome.path
      /\ before[p].exists

\* neither .git nor assets/.visualizer in the directory of the file or in any
\* of the ancestors the bounded walk visits
NoMarkerWithinBound(ds, target) ==
  LET start == dirname(normpath(target))
  IN \A k \in 0..(max_levels - 1) :
       k <= Len(start) =>
         LET ancestor == SubSeq(start, 1, Len(start) - k)
         IN /\ ancestor \o <<DotGit>> \notin ds
            /\ ancestor \o <<Assets, DotVisualizer>> \notin ds
\* the parent of the directory that holds the file, "/" when there is none
Grandparent(target) == dirname(dirname(normpath(target)))
\* the root a resolution used: the cache path is root/assets/.visualizer/name
RootUsed(path) == SubSeq(path, 1, Len(path) - 3)

\* C14: a resolution without a root hint that finds no marker within the
\* bound uses the grandparent directory of the file as root
FallbackIsGrandparent ==
  [][\A p \in Procs :
       (/\ nops' = nops + 1
        /\ call'[p].op = "resolve" /\ ~call'[p].root.some
        /\ NoMarkerWithinBound(dirs, call'[p].path)) =>
          RootUsed(outputPath'[p]) = Grandparent(call'[p].path)]_vars

\* the entries of a directory that a hierarchy shows: those whose names are
\* not in the ignore-set and do not begin with a dot
Kept(path) ==
  {n \in listdir(dirs, DOMAIN files, path) :
     /\ n \notin {DotGit, <<"node_modules">>, <<"__pycache__">>, <<".", "DS_Store">>,
                  <<"venv">>, <<".", "next">>}
     /\ n[1] # "."}
ChildNames(node) ==
  [i \in 1..Len(GetKey(node, "children").v) |-> GetKey(GetKey(node, "children").v[i], "name").s]
Built(p) == call[p].op = "buildHierarchy"

RECURSIVE Conforms(_, _)
\* the node is the hierarchy of the path: a leaf for what is no directory, a
\* folder for a directory, with one child for each kept entry, in the order of
\* the lower-cased names, each the hierarchy of that entry
Conforms(node, path) ==
  /\ GetKey(node, "name") = JStr(text_str(basename(path)))
  /\ GetKey(node, "path") = JStr(text_str(abs_text(path)))
  /\ IF path \in dirs
       THEN /\ GetKey(node, "type") = JStr("folder")
            /\ HasKey(node, "children")
            /\ path \notin unreadable =>
                 LET ch == GetKey(node, "children").v
                     entryAt(i) == CHOOSE n \in Kept(path) : text_str(n) = ChildNames(node)[i]
                 IN /\ Len(ch) = Cardinality(Kept(path))
                    /\ \A n \in Kept(path) : \E i \in 1..Len(ch) : ChildNames(node)[i] = text_str(n)
                    /\ \A i \in 1..Len(ch) :
                         /\ \E n \in Kept(path) : ChildNames(node)[i] = text_str(n)
                         /\ Conforms(ch[i], path \o <<entryAt(i)>>)
                    /\ \A i \in 1..Len(ch), j \in 1..Len(ch) :
                         i < j => text_less(AtomOrder, entryAt(i), entryAt(j))
       ELSE /\ GetKey(node, "type") = JStr("file")
            /\ ~HasKey(node, "children")

\* C18: the hierarchy built for a path is a leaf for a non-directory and, for
\* a directory, a folder whose children are exactly its entries that are not
\* ignored and not dot-prefixed, ordered by lower-cased name, each built alike
HierarchyConforms ==
  \A p \in Procs : Built(p) => Conforms(result[p].val, call[p].path)
\* a directory holding .git, node_modules, .DS_Store, .hidden, A.py, b.py and
\* the folder Sub was built: three children, in the order A.py, b.py, Sub
BuiltOverIgnored ==
  \E p \in Procs :
    /\ Built(p) /\ call[p].path = TreeTop /\ TreeTop \notin unreadable
    /\ {TreeTop \o <<DotGit>>, TreeTop \o <<<<"node_modules">>>>,
        TreeTop \o <<<<".", "hidden">>>>} \subseteq dirs
    /\ TreeTop \o <<<<".", "DS_Store">>>> \in DOMAIN files
    /\ ChildNames(result[p].val) = <<"A.py", "b.py", "Sub">>

\* what is left of a set of paths when the directories at and below top that
\* cannot be listed are taken to be empty
Visible(paths, top) ==
  {q \in paths : \A k \in Len(top)..(Len(q) - 1) : SubSeq(q, 1, k) \notin unreadable}

\* C19: the build returns; a directory that cannot be listed is a folder with
\* no children, and the whole result is the hierarchy of the tree in which
\* each such directory is empty
UnlistableIsEmpty ==
  \A p \in Procs :
    Built(p) =>
      /\ result[p].st = "returned"
      /\ (call[p].path \in dirs /\ call[p].path \in unreadable) =>
            /\ GetKey(result[p].val, "type") = JStr("folder")
            /\ GetKey(result[p].val, "children") = JList(<<>>)
      /\ result[p].val = _buildHierarchy(Visible(dirs, call[p].path),
                                        Visible(DOMAIN files, call[p].path), {},
                                        call[p].path)
\* the folder Sub, which holds a file and a folder, cannot be listed: the
\* build of its parent shows it without children, beside its siblings
BuiltOverUnlistable ==
  \E p \in Procs :
    /\ Built(p) /\ call[p].path = TreeTop
    /\ TreeSub \in unreadable /\ TreeTop \notin unreadable
    /\ TreeSub \o <<<<"d">>>> \in dirs /\ TreeSub \o <<<<"c", ".", "py">>>> \in DOMAIN files
    /\ ChildNames(result[p].val) = <<"b.py", "Sub">>
    /\ GetKey(GetKey(result[p].val, "children").v[2], "children") = JList(<<>>)

MatlabParsed(p) == call[p].op = "matlab_parse"
Names(list) == {list.v[k].s : k \in 1..Len(list.v)}
EntryNames(list) == [k \in 1..Len(list.v) |-> GetKey(list.v[k], "name").s]
DictKeys(d) == {d.v[k].key : k \in 1..Len(d.v)}

\* The names a reader reaches through functions, classes and classDetails:
\* the functions, the classes, the classDetails entries and their methods,
\* bare and qualified by their class.
ReachableNames(doc) ==
  Names(GetKey(doc, "functions")) \cup Names(GetKey(doc, "classes"))
    \cup UNION {LET class == GetKey(doc, "classDetails").v[k]
                    methods == {m.s : m \in {GetKey(e, "name") :
                                  e \in {GetKey(class, "methods").v[j] :
                                           j \in 1..Len(GetKey(class, "methods").v)}}}
                IN {GetKey(class, "name").s} \cup methods
                     \cup {GetKey(class, "name").s \o "." \o m : m \in methods} :
                k \in 1..Len(GetKey(doc, "classDetails").v)}

\* C15: every key of signatures, definitions and locations of an analysis
\* document is a name that functions, classes or the methods of a
\* classDetails entry also hold.
KeysAreReachable ==
  \A p \in Procs :
    MatlabParsed(p) =>
      \A part \in {"signatures", "definitions", "locations"} :
        DictKeys(GetKey(data[p], part)) \subseteq ReachableNames(data[p])

RECURSIVE matching_end(_, _, _)
\* The line of the end that closes the block opened just before line j,
\* counting the blocks that open and close on the way; 0 if there is none.
matching_end(lines, j, depth) ==
  IF j > Len(lines) THEN 0
  ELSE IF lines[j].kind \in {"open", "function"} THEN matching_end(lines, j + 1, depth + 1)
  ELSE IF lines[j].kind = "end"
         THEN IF depth = 0 THEN j ELSE matching_end(lines, j + 1, depth - 1)
  ELSE matching_end(lines, j + 1, depth)

FunctionLines(lines) == {i \in 1..Len(lines) : lines[i].kind = "function"}
BodyOf(lines, i) == (i + 1)..(matching_end(lines, i + 1, 0) - 1)
HasBlocks(lines, i) == \E j \in BodyOf(lines, i) : lines[j].kind \in {"open", "inline"}
HasInline(lines, i) == \E j \in BodyOf(lines, i) : lines[j].kind = "inline"
ClosedAtOwnEnd(doc, lines, i) ==
  /\ HasKey(GetKey(doc, "definitions"), lines[i].name)
  /\ GetKey(GetKey(doc, "definitions"), lines[i].name)
       = line_range(i, matching_end(lines, i + 1, 0))

Code(lines) == SelectSeq(lines, LAMBDA l : l.kind # "blank")
IsClassA(doc) ==
  /\ Len(GetKey(doc, "classDetails").v) = 1
  /\ GetKey(GetKey(doc, "classDetails").v[1], "name") = JStr("A")
  /\ EntryNames(GetKey(GetKey(doc, "classDetails").v[1], "properties")) = <<"x">>
  /\ EntryNames(GetKey(GetKey(doc, "classDetails").v[1], "methods")) = <<"y">>
  /\ GetKey(doc, "functions") = JList(<<>>)
  /\ HasKey(GetKey(doc, "dependencies"), "y")
  /\ GetKey(GetKey(doc, "dependencies"), "y")
       = JObj(<<Member("calls", JList(<<>>)),
                Member("uses_properties", JList(<<JStr("x")>>))>>)

\* C17: for the class A with the property x and the method y that reads
\* obj.x, when the end of the properties block is indented more than the
\* classdef line, the document has the one classDetails entry A with
\* properties [x] and methods [y], no standalone function, and a
\* dependencies entry for y with the property uses [x] and no calls.
ClassAIsAnalysed ==
  \A p \in Procs :
    (/\ MatlabParsed(p)
     /\ call[p].src \in ClassASources
     /\ Code(call[p].src)[4].indent > Code(call[p].src)[1].indent)
      => IsClassA(data[p])

\* C17 as stated: whatever the indentation.
ClassAIsAnalysedAnyIndent ==
  \A p \in Procs :
    (MatlabParsed(p) /\ call[p].src \in ClassASources) => IsClassA(data[p])

\* The indented class A has been analysed.
ClassAAnalysed ==
  \E p \in Procs :
    /\ MatlabParsed(p)
    /\ call[p].src \in ClassASources
    /\ Code(call[p].src)[4].indent > Code(call[p].src)[1].indent
    /\ IsClassA(data[p])

PythonParsed(p) == call[p].op = "python_parse"
\* The functions, methods and classes of a source, each with the keys it
\* is recorded under and the line of its own keyword.
Symbols(stmts) ==
  LET tree == place(stmts, 1)
  IN {[keys |-> {tree[k].name}, keyword |-> tree[k].keyword, first |-> tree[k].first] :
        k \in {i \in 1..Len(tree) : tree[i].type \in {"def", "class"}}}
     \cup UNION {{[keys |-> {tree[k].body[j].name,
                             tree[k].name \o "." \o tree[k].body[j].name},
                   keyword |-> tree[k].body[j].keyword, first |-> tree[k].body[j].first] :
                    j \in {i \in 1..Len(tree[k].body) : tree[k].body[i].type = "def"}} :
                 k \in 1..Len(tree)}
Attributes(stmts) ==
  LET tree == place(stmts, 1)
  IN UNION {{[keys |-> {tree[k].body[j].name,
                        tree[k].name \o "." \o tree[k].body[j].name},
              keyword |-> tree[k].body[j].keyword, first |-> tree[k].body[j].first] :
               j \in {i \in 1..Len(tree[k].body) : tree[k].body[i].type = "assign"}} :
            k \in 1..Len(tree)}
\* No other symbol or class attribute of the source is recorded under key.
OnlyHolder(stmts, sym, key) ==
  \A other \in Symbols(stmts) \cup Attributes(stmts) :
    key \in other.keys => other = sym
LocatedAt(doc, key, line) ==
  /\ HasKey(GetKey(doc, "locations"), key)
  /\ GetKey(GetKey(doc, "locations"), key) = JNum(line)

\* C20: for every function, method or class, decorated or not, and every
\* name it is recorded under that no other function, method, class or
\* class attribute of the file is recorded under, locations[name] is the
\* line of its own def, async def or class keyword; and no entry of
\* locations is the line of a decorator.
LocationIsKeywordLine ==
  \A p \in Procs :
    PythonParsed(p) =>
      /\ \A sym \in Symbols(call[p].src.stmts) : \A key \in sym.keys :
           OnlyHolder(call[p].src.stmts, sym, key)
             => LocatedAt(data[p], key, sym.keyword)
      /\ \A k \in 1..Len(GetKey(data[p], "locations").v) :
           splitlines(place(call[p].src.stmts, 1), body_size(call[p].src.stmts))
             [GetKey(data[p], "locations").v[k].val.n] # "decorator"

\* C20 as stated: for every function, method or class, locations[name] is
\* the line of its own keyword.
LocationIsOwnKeywordLine ==
  \A p \in Procs :
    PythonParsed(p) =>
      \A sym \in Symbols(call[p].src.stmts) : \A key \in sym.keys :
        LocatedAt(data[p], key, sym.keyword)

\* A method under two decorators, numbered from the first of them, has
\* been located at its def line.
DecoratedMethodLocated ==
  \E p \in Procs :
    /\ PythonParsed(p)
    /\ call[p].src.at_decorator
    /\ \E sym \in Symbols(call[p].src.stmts) :
         /\ sym.keyword = sym.first + 2
         /\ "A.m" \in sym.keys
         /\ OnlyHolder(call[p].src.stmts, sym, "A.m")
         /\ LocatedAt(data[p], "A.m", sym.keyword)

\* The methods of a source, each with its class, its name and its lines.
MethodsOf(stmts) ==
  LET tree == place(stmts, 1)
  IN UNION {{[class |-> tree[k].name, name |-> tree[k].body[j].name,
              keyword |-> tree[k].body[j].keyword, last |-> tree[k].body[j].last] :
               j \in {i \in 1..Len(tree[k].body) : tree[k].body[i].type = "def"}} :
            k \in {i \in 1..Len(tree) : tree[i].type = "class"}}
TopFunctions(stmts) ==
  LET tree == place(stmts, 1)
  IN {tree[k] : k \in {i \in 1..Len(tree) : tree[i].type = "def"}}
\* No other method and no function of the source has the method's name,
\* and no other class has the name of its class.
OnlyMethodOfItsName(stmts, m) ==
  /\ \A o \in MethodsOf(stmts) : o.name = m.name => o = m
  /\ \A f \in TopFunctions(stmts) : f.name # m.name
  /\ Cardinality({k \in 1..Len(stmts) : stmts[k].type = "class" /\ stmts[k].name = m.class}) = 1
ListedMethod(doc, m) ==
  \E k \in 1..Len(GetKey(doc, "classDetails").v) :
    /\ GetKey(GetKey(doc, "classDetails").v[k], "name") = JStr(m.class)
    /\ \E j \in 1..Len(GetKey(GetKey(doc, "classDetails").v[k], "methods").v) :
         GetKey(GetKey(GetKey(doc, "classDetails").v[k], "methods").v[j], "name") = JStr(m.name)
BothKeysHoldSource(doc, m, at_decorator) ==
  LET definitions == GetKey(doc, "definitions")
  IN /\ HasKey(definitions, m.name)
     /\ HasKey(definitions, m.class \o "." \o m.name)
     /\ GetKey(definitions, m.name) = GetKey(definitions, m.class \o "." \o m.name)
     /\ ~at_decorator => GetKey(definitions, m.name) = line_range(m.keyword, m.last)

\* C21: for every method m listed in the classDetails entry of a class C,
\* when no other method or function of the file is named m and no other
\* class is named C, definitions holds the keys m and C.m with the same
\* text, the source of that method from its def line through its last line.
MethodDefinedTwice ==
  \A p \in Procs :
    PythonParsed(p) =>
      \A m \in MethodsOf(call[p].src.stmts) :
        (ListedMethod(data[p], m) /\ OnlyMethodOfItsName(call[p].src.stmts, m))
          => BothKeysHoldSource(data[p], m, call[p].src.at_decorator)

\* C21 as stated: for every listed method, whatever else the file names.
EveryMethodDefinedTwice ==
  \A p \in Procs :
    PythonParsed(p) =>
      \A m \in MethodsOf(call[p].src.stmts) :
        ListedMethod(data[p], m) => BothKeysHoldSource(data[p], m, call[p].src.at_decorator)

\* A decorated method that is the only one of its name has been recorded
\* under both keys, beside a class attribute.
DecoratedMethodDefined ==
  \E p \in Procs :
    /\ PythonParsed(p)
    /\ ~call[p].src.at_decorator
    /\ \E m \in MethodsOf(call[p].src.stmts) :
         /\ m.class = "A" /\ m.keyword > 2 /\ m.last > m.keyword
         /\ OnlyMethodOfItsName(call[p].src.stmts, m)
         /\ BothKeysHoldSource(data[p], m, FALSE)

\* The text holds a qualifier (in any case, wherever it stands), a dot and
\* the whole name, and no "(" follows the name.
RefersToWhole(text, name) ==
  \E i \in 1..Len(text) :
    LET j == qualified_at(text, i)
        r == IF j = 0 THEN 0 ELSE word_run(text, j)
    IN /\ r > 0
       /\ concat(text, j, j + r - 1) = name
       /\ ~IsChar(text, skip_spaces(text, j + r), "(")

\* C26: a property is in a method's property-use list only if the body
\* holds a qualified reference to the whole identifier that is not
\* followed by "("; a longer identifier that begins with it, and a
\* qualified call, give no property-use edge.
PropertyUseIsWholeReference ==
  \A p \in Procs :
    call[p].op = "_extract_dependencies" =>
      \A name \in Names(GetKey(data[p], "uses_properties")) :
        RefersToWhole(call[p].src.methodBody, name)

Scanning(p) == call[p].op = "matlab_scan"
LastLine(p) == call[p].src[Len(call[p].src)]

\* C22: after a class-opening line is processed, whatever the state before
\* it, inProperties is false.
ClassOpeningResetsProperties ==
  \A p \in Procs :
    (Scanning(p) /\ call[p].src # <<>> /\ LastLine(p).kind = "classdef")
      => ~data[p].inProperties

\* The line read in this step, by a caller that tracks a function body.
ReadsEndWhileTracking(p) ==
  /\ Scanning(p)
  /\ Len(call'[p].src) = Len(call[p].src) + 1
  /\ call'[p].src[Len(call'[p].src)].kind = "end"
  /\ data[p].funcStartLine # 0
KeepsClassAndProperties(p) ==
  /\ data'[p].currentClass = data[p].currentClass
  /\ data'[p].inProperties = data[p].inProperties
  /\ data'[p].classDetails = data[p].classDetails

\* C23: an end line that lowers the nest depth or closes the tracked
\* function body, and that is indented more than the classdef line of the
\* current class and more than the opening line of the current properties
\* block, ends neither the class nor the properties block.
EndClosesOneConstruct ==
  [][\A p \in Procs :
       (/\ ReadsEndWhileTracking(p)
        /\ data[p].currentClass # 0
             => call'[p].src[Len(call'[p].src)].indent > data[p].classIndent
        /\ data[p].inProperties
             => call'[p].src[Len(call'[p].src)].indent > data[p].propsIndent)
         => KeepsClassAndProperties(p)]_vars

\* C23 as stated: whatever the indentation of the end line.
AnyEndClosesOneConstruct ==
  [][\A p \in Procs : ReadsEndWhileTracking(p) => KeepsClassAndProperties(p)]_vars

\* A method has been closed by an end indented more than its class, and
\* the function that followed is a method of the same class.
MethodAfterClosedMethod ==
  \E p \in Procs :
    /\ Scanning(p)
    /\ Len(call[p].src) = 4
    /\ call[p].src[1].kind = "classdef" /\ call[p].src[2].kind = "function"
    /\ call[p].src[3].kind = "end" /\ call[p].src[3].indent > call[p].src[1].indent
    /\ call[p].src[4].kind = "function"
    /\ Len(data[p].classDetails[1].methods) = 2
    /\ data[p].functions = <<>>
    /\ HasKey(data[p].definitions, "f")

\* C25: after every line the scan state is consistent: currentClass set
\* implies classIndent set; inProperties implies currentClass and
\* propsIndent set; the nest depth is not negative; and when no function
\* body is tracked, there is no tracked name and the nest depth is 0.
ScanStateConsistent ==
  \A p \in Procs :
    Scanning(p) =>
      /\ data[p].currentClass # 0 => data[p].classIndent >= 0
      /\ data[p].inProperties => (data[p].currentClass # 0 /\ data[p].propsIndent >= 0)
      /\ data[p].funcNestLevel >= 0
      /\ data[p].funcStartLine = 0 => (data[p].funcName = "" /\ data[p].funcNestLevel = 0)

\* Inside a class, with its properties block open, a function body is
\* tracked one block deep.
AllConstructsOpen ==
  \E p \in Procs :
    /\ Scanning(p)
    /\ data[p].currentClass # 0 /\ data[p].inProperties
    /\ data[p].funcStartLine # 0 /\ data[p].funcNestLevel > 0

HasFunction(lines, i) == \E j \in BodyOf(lines, i) : lines[j].kind = "function"
Redefined(lines, i) ==
  \E j \in FunctionLines(lines) : j > i /\ lines[j].name = lines[i].name

\* C24: every function whose opening line is followed by its own matching
\* end, whose body holds no other function line and no block written on
\* one line, and whose name no later function has, has a definitions entry
\* that spans from its opening line through that end, at every nesting
\* level.
FunctionSpansToOwnEnd ==
  \A p \in Procs :
    MatlabParsed(p) =>
      \A i \in FunctionLines(call[p].src) :
        (/\ matching_end(call[p].src, i + 1, 0) # 0
         /\ ~HasFunction(call[p].src, i)
         /\ ~HasInline(call[p].src, i)
         /\ ~Redefined(call[p].src, i))
          => ClosedAtOwnEnd(data[p], call[p].src, i)

\* C24 as stated: every function followed by its own matching end, also
\* one whose body holds another function.
EveryFunctionSpansToOwnEnd ==
  \A p \in Procs :
    MatlabParsed(p) =>
      \A i \in FunctionLines(call[p].src) :
        matching_end(call[p].src, i + 1, 0) # 0
          => ClosedAtOwnEnd(data[p], call[p].src, i)

\* A function defined inside the body of another has been analysed, and
\* its entry runs through its own end.
InnerFunctionSpans ==
  \E p \in Procs :
    /\ MatlabParsed(p)
    /\ \E i \in FunctionLines(call[p].src) : \E j \in BodyOf(call[p].src, i) :
         /\ call[p].src[j].kind = "function"
         /\ ClosedAtOwnEnd(data[p], call[p].src, j)

\* The target lies in the root and is named there, after separators and dots
\* are replaced, otherwise than the target the comments are kept for.
NamedApart(target, noted, root) ==
  /\ target # noted
  /\ Inside(target, root)
  /\ ~starts_with_dotdot(join_rel(relpath(normpath(target), normpath(root))))
  /\ SanitizedRelative(target, root) # SanitizedRelative(noted, root)
\* No document returned for the target by a scan, and none persisted for it,
\* holds a comment.
NoCommentsFor(target, root) ==
  /\ \A p \in Procs :
       (/\ call[p].op = "scanFile" /\ call[p].path = target
        /\ pc[p] = "idle" /\ result[p].st = "returned")
         => GetKey(result[p].val, "comments") = JList(<<>>)
  /\ LET e == entry(files, unreadable, _get_storage_path(dirs, target, Root(root)).path)
     IN HoldsList(e) => CommentsOf(e) = JList(<<>>)

TopNames(node) == {ChildNames(node)[i] : i \in 1..Len(GetKey(node, "children").v)}

\* C28: the hierarchy scanFolder builds has as its top-level children
\* exactly the entries the directory held before the call that are not
\* ignored and do not begin with a dot.
FolderSnapshotIsPrior ==
  [][\A p \in Procs :
       (pc[p] = "idle" /\ nops' = nops + 1 /\ call'[p].op = "scanFolder")
         => TopNames(data'[p])
              = {text_str(n) : n \in {m \in listdir(dirs, SourceFiles \cup DOMAIN files,
                                                    call'[p].path) :
                                        m \notin ignored /\ Head(m) # "."}}]_vars

\* C29: a cache path resolved against a given root lies directly in
\* <root>/assets/.visualizer, which exists after the resolution, and its
\* name is meta_, then the relative or the absolute path of the target with
\* every separator and dot replaced, then .json.
CacheEntryInCacheDirectory ==
  \A p \in Procs :
    Resolved(p) =>
      LET storage_dir == normpath(call[p].root.p) \o <<Assets, DotVisualizer>>
      IN /\ Len(outputPath[p]) = Len(storage_dir) + 1
         /\ dirname(outputPath[p]) = storage_dir
         /\ storage_dir \in dirs
         /\ CacheName(p) \in
              {"meta_" \o SanitizedRelative(call[p].path, call[p].root.p) \o ".json",
               "meta_" \o SanitizedAbsolute(call[p].path) \o ".json"}

\* A target outside the root and a target two levels below it are both
\* resolved into the cache directory of the root.
OutsideAndDeepResolved ==
  /\ \E p \in Procs :
       /\ Resolved(p) /\ ~Inside(call[p].path, call[p].root.p)
       /\ dirname(outputPath[p]) = normpath(call[p].root.p) \o <<Assets, DotVisualizer>>
  /\ \E p \in Procs :
       /\ Resolved(p) /\ Inside(call[p].path, call[p].root.p)
       /\ Len(normpath(call[p].path)) > Len(normpath(call[p].root.p)) + 1
       /\ dirname(outputPath[p]) = normpath(call[p].root.p) \o <<Assets, DotVisualizer>>

\* The members of an object other than "comments", in their order.
IsOther(member) == member.key # "comments"
OtherFields(doc) == IF doc.t = "obj" THEN SelectSeq(doc.v, IsOther) ELSE <<>>
\* The comment list of a document, empty where it has none.
CommentList(doc) ==
  IF doc.t = "obj" /\ HasKey(doc, "comments") THEN GetKey(doc, "comments").v ELSE <<>>
\* The replace of a saveComments or addComment that then returns.
CommentCallReplaces(p) ==
  /\ call[p].op \in {"saveComments", "addComment"}
  /\ pc[p] = "dump" /\ pc'[p] = "idle" /\ result'[p].st = "returned"
\* The document persisted after the step has the other fields of prior, and
\* its comments are the supplied ones, or those of prior and one new entry
\* behind them.
OnlyCommentsChanged(p, prior) ==
  LET new == loads(files'[outputPath[p]]).val
  IN /\ new = result'[p].val
     /\ new.t = "obj" /\ HasKey(new, "comments")
     /\ OtherFields(new) = OtherFields(prior)
     /\ call[p].op = "saveComments" => GetKey(new, "comments") = call[p].comments
     /\ call[p].op = "addComment" =>
          GetKey(new, "comments") =
            JList(Append(CommentList(prior),
                         CommentEntry(call[p].nodeLabel, call[p].text)))

\* C30: a saveComments or addComment that returns persists the document it
\* loaded with only "comments" changed: the other fields are as they were,
\* saveComments sets the list to the supplied one and addComment puts one
\* entry behind the earlier ones; a prior file that cannot be opened or
\* parsed counts as an empty object.
CommentCallsKeepLoadedFields ==
  [][\A p \in Procs :
       CommentCallReplaces(p) =>
         LET old == load_json(entry(files, unreadable, outputPath[p]))
         IN OnlyCommentsChanged(p, IF old.ok THEN old.val ELSE EmptyDict)]_vars

\* C30 as stated: the other fields of the document the file holds are
\* written back, whether or not the file could be opened.
CommentCallsKeepPersistedFields ==
  [][\A p \in Procs :
       CommentCallReplaces(p) =>
         LET old == entry(files, unreadable, outputPath[p])
         IN OnlyCommentsChanged(p, IF old.exists /\ loads(old.text).ok
                                     THEN loads(old.text).val ELSE EmptyDict)]_vars

\* saveComments has returned over a document with other fields and other
\* comments: the fields are persisted as they were, the comments are the
\* supplied ones.
SavedOverDocument ==
  \E p \in Procs :
    /\ call[p].op = "saveComments" /\ pc[p] = "idle" /\ result[p].st = "returned"
    /\ before[p].exists /\ before[p].readable /\ loads(before[p].text).ok
    /\ OtherFields(loads(before[p].text).val) # <<>>
    /\ CommentList(loads(before[p].text).val) # call[p].comments.v
    /\ OtherFields(loads(files[outputPath[p]]).val) = OtherFields(loads(before[p].text).val)
    /\ CommentList(loads(files[outputPath[p]]).val) = call[p].comments.v

====
